---- MODULE Spec2Model ----
(***************************************************************************)
(* Dish ingredient resolution and aggregation pipeline of BestBefore:      *)
(*   backend/api/dish_ingre_service.py          (DishIngredientService)    *)
(*   backend/api/service/ingredient_combiner_service.py                    *)
(* and the game sessions of backend/api/game_core.py, game_logic.py.       *)
(*                                                                         *)
(* Python str values are TLA+ strings: Len, SubSeq and \o act on them as   *)
(* len(), slicing and + do.  A Python call either returns a value or lets  *)
(* an exception escape; an outcome is the record [exc, ret] with           *)
(* exc = "None" for a normal return.                                       *)
(***************************************************************************)
EXTENDS Integers, Sequences, FiniteSets, TLC

VARIABLES
    dish_cache,      \* DishIngredientService.dish_cache: ordered <<[key, ingredients]>>
    dish_mappings,   \* rows of the dish_mappings table: set of [user_term, dish_name]
    claude_api_key,  \* DishIngredientService.claude_api_key ("" when not configured)
    games,           \* the games dict of the game module in use: module -> game_id -> game_data
    call,            \* the operation that has just run, "idle" between two calls
    args,            \* its arguments
    ret,             \* the value it returned
    exc              \* the exception that escaped it, "None" if it returned

vars == <<dish_cache, dish_mappings, claude_api_key, games, call, args, ret, exc>>

\* no game module is in use
NoModule == <<>>

Return(v) == [exc |-> "None", ret |-> v]
Raise(e) == [exc |-> e, ret |-> ""]

---------------------------------------------------------------------------
(* Python str primitives *)

Char(s, i) == IF i >= 1 /\ i <= Len(s) THEN SubSeq(s, i, i) ELSE ""

Digits == {"0", "1", "2", "3", "4", "5", "6", "7", "8", "9"}

\* what \s matches and what str.strip() removes
Whitespace == {" ", "\t", "\n"}

\* the length of the longest run of characters of class cls that starts at s[i]
RunLen(s, i, cls) ==
    LET stops == {j \in i..Len(s) : Char(s, j) \notin cls}
    IN  IF i > Len(s) THEN 0
        ELSE IF stops = {} THEN Len(s) - i + 1
        ELSE (CHOOSE j \in stops : \A k \in stops : j <= k) - i

\* the length of the longest run of characters of class cls that ends s
TrailLen(s, cls) ==
    LET stops == {j \in 1..Len(s) : Char(s, j) \notin cls}
    IN  IF stops = {} THEN Len(s)
        ELSE Len(s) - (CHOOSE j \in stops : \A k \in stops : j >= k)

rstrip(s, cls) == SubSeq(s, 1, Len(s) - TrailLen(s, cls))

strip(s) ==
    LET a == RunLen(s, 1, Whitespace)
    IN  IF a = Len(s) THEN "" ELSE rstrip(SubSeq(s, a + 1, Len(s)), Whitespace)

UpperCase == "ABCDEFGHIJKLMNOPQRSTUVWXYZ"
LowerCase == "abcdefghijklmnopqrstuvwxyz"

LowerChar(c) ==
    IF \E i \in 1..Len(UpperCase) : Char(UpperCase, i) = c
    THEN Char(LowerCase, CHOOSE i \in 1..Len(UpperCase) : Char(UpperCase, i) = c)
    ELSE c

RECURSIVE lower(_)
lower(s) == IF s = "" THEN "" ELSE LowerChar(Char(s, 1)) \o lower(SubSeq(s, 2, Len(s)))

\* sub in s
Contains(s, sub) ==
    \E i \in 1..(Len(s) - Len(sub) + 1) : SubSeq(s, i, i + Len(sub) - 1) = sub

DecimalDigits == "0123456789"

DigitVal(c) == (CHOOSE d \in 1..10 : Char(DecimalDigits, d) = c) - 1

\* int(s) for a string of decimal digits
RECURSIVE int(_)
int(s) ==
    IF s = "" THEN 0
    ELSE int(SubSeq(s, 1, Len(s) - 1)) * 10 + DigitVal(Char(s, Len(s)))

\* str(n) for an int n >= 0
RECURSIVE str(_)
str(n) ==
    IF n < 10 THEN Char(DecimalDigits, n + 1)
    ELSE str(n \div 10) \o Char(DecimalDigits, (n % 10) + 1)

---------------------------------------------------------------------------
(* Python float.  A finite value is kept exactly, in tenths (t = 10 * x):  *)
(* the quantities of the model carry at most one fractional digit, 0 or 5, *)
(* so every value and every sum or product of them is a binary-exact       *)
(* double.  A digit string too long for a double converts to inf, as       *)
(* float() does, and int(inf) raises OverflowError.                        *)

Finite(t) == [inf |-> FALSE, t |-> t]
Inf == [inf |-> TRUE, t |-> 0]

\* float(s) for s matching \d+(?:\.\d+)?
float(s) ==
    LET d    == RunLen(s, 1, Digits)
        sig  == SubSeq(s, RunLen(s, 1, {"0"}) + 1, d)
        frac == Char(s, d + 2)
    IN  IF Len(sig) > 309 \/ (Len(sig) = 309 /\ Char(sig, 1) # "1")
        THEN Inf
        ELSE Finite(int(SubSeq(s, 1, d)) * 10 + (IF frac = "" THEN 0 ELSE DigitVal(frac)))

FAdd(x, y) == IF x.inf \/ y.inf THEN Inf ELSE Finite(x.t + y.t)

\* float * int, for n >= 1
FMul(x, n) == IF x.inf THEN Inf ELSE Finite(x.t * n)

\* x >= n for an int n
FGe(x, n) == x.inf \/ x.t >= 10 * n

\* x == int(x), for a finite x
IsWhole(x) == x.t % 10 = 0

\* int(x), for a finite x: truncation
Trunc(x) == x.t \div 10

\* str(x) of a float, also what an f-string prints for it
str_float(x) ==
    IF x.inf THEN "inf"
    ELSE str(x.t \div 10) \o "." \o Char(DecimalDigits, (x.t % 10) + 1)

\* f"{x:.1f}" of x = t / 10000 (a weight or volume in tenths, divided by 1000):
\* round-half-even to one decimal; every tie the model meets is a multiple
\* of 0.25, which a double holds exactly
format_1f(t) ==
    LET q   == t \div 1000
        r   == t % 1000
        k10 == IF r > 500 \/ (r = 500 /\ q % 2 = 1) THEN q + 1 ELSE q
    IN  str(k10 \div 10) \o "." \o Char(DecimalDigits, (k10 % 10) + 1)

-------------------------------------------------------------------------------------------------------------------------------------------------
(* Python float, bit for bit.  float() of a decimal text is the nearest    *)
(* IEEE 754 double, ties to even; a product of a double and an int is the  *)
(* nearest double to the exact product; int() of a double truncates.  A    *)
(* double is kept as m / 2^e with a 53-bit m, and m as five base-2^15      *)
(* digits, least significant first, so that no step leaves 32-bit          *)
(* integers.  Texts of 11 to 308 digits are outside the inputs.            *)

Base == 2^15
LimbIndex == 1..5

\* n < 2^31 as digits
Big(n) == <<n % Base, (n \div Base) % Base, n \div (Base * Base), 0, 0>>

\* the value of digits that stay below 2^31
Small(b) == b[1] + b[2] * Base + b[3] * Base * Base

\* the carry into digit i of b * k
RECURSIVE Carry(_, _, _)
Carry(b, k, i) == IF i = 1 THEN 0 ELSE (b[i - 1] * k + Carry(b, k, i - 1)) \div Base

\* b * k, for 0 < k <= 2^15
BigMul(b, k) == [i \in LimbIndex |-> (b[i] * k + Carry(b, k, i)) % Base]

\* what digits i, i+1, ... of b leave on division by d
RECURSIVE Rem(_, _, _)
Rem(b, d, i) == IF i > 5 THEN 0 ELSE (Rem(b, d, i + 1) * Base + b[i]) % d

\* b // d, for 0 < d <= 2^15
BigDiv(b, d) == [i \in LimbIndex |-> (Rem(b, d, i + 1) * Base + b[i]) \div d]

\* b + 1
BigInc(b) ==
    [i \in LimbIndex |->
        IF \A j \in 1..(i - 1) : b[j] = Base - 1 THEN (b[i] + 1) % Base ELSE b[i]]

\* b / d rounded to the nearest integer, ties to even
RoundDiv(b, d) ==
    LET nearest(q, r) ==
            IF 2 * r > d \/ (2 * r = d /\ q[1] % 2 = 1) THEN BigInc(q) ELSE q
    IN  nearest(BigDiv(b, d), Rem(b, d, 1))

\* b << e
RECURSIVE ShiftLeft(_, _)
ShiftLeft(b, e) ==
    IF e >= 15 THEN ShiftLeft(<<0, b[1], b[2], b[3], b[4]>>, e - 15)
    ELSE BigMul(b, 2^e)

\* b >> e
RECURSIVE ShiftRight(_, _)
ShiftRight(b, e) ==
    IF e >= 15 THEN ShiftRight(<<b[2], b[3], b[4], b[5], 0>>, e - 15)
    ELSE BigDiv(b, 2^e)

\* the number of bits of b
BitLen(b) ==
    LET bits(top) ==
            IF top = 0 THEN 0
            ELSE 15 * (top - 1) + (CHOOSE n \in 1..15 : b[top] < 2^n /\ 2^n <= 2 * b[top])
    IN  bits(CHOOSE i \in 0..5 : (i = 0 \/ b[i] # 0) /\ \A j \in (i + 1)..5 : b[j] = 0)

Zero == [inf |-> FALSE, m |-> Big(0), e |-> 0]
Infinity == [inf |-> TRUE, m |-> Big(0), e |-> 0]

\* the double nearest to a / p, for 0 < a < 2^31 and 0 < p <= 10^4
Nearest(a, p) ==
    LET scaled(e) == [inf |-> FALSE, m |-> RoundDiv(ShiftLeft(Big(a), e), p), e |-> e]
        low == 52 - BitLen(Big(a)) + BitLen(Big(p))
    IN  scaled(CHOOSE e \in {low, low + 1} : BitLen(BigDiv(ShiftLeft(Big(a), e), p)) = 53)

\* float(s) for s matching \d+(?:\.\d+)?, the fraction of at most 4 digits
float_binary64(s) ==
    LET d == RunLen(s, 1, Digits)
        value(sig, whole, frac) ==
            IF Len(sig) > 309 \/ (Len(sig) = 309 /\ Char(sig, 1) # "1") THEN Infinity
            ELSE IF int(whole \o frac) = 0 THEN Zero
            ELSE Nearest(int(whole \o frac), 10^Len(frac))
    IN  value(SubSeq(s, RunLen(s, 1, {"0"}) + 1, d), SubSeq(s, 1, d), SubSeq(s, d + 2, Len(s)))

\* x * k for a double x and an int 0 < k < 2^10
Times(x, k) ==
    LET rounded(product, excess) ==
            IF excess <= 0 THEN [inf |-> FALSE, m |-> product, e |-> x.e]
            ELSE [inf |-> FALSE, m |-> RoundDiv(product, 2^excess), e |-> x.e - excess]
        exact(product) == rounded(product, BitLen(product) - 53)
    IN  IF x.inf THEN x ELSE exact(BigMul(x.m, k))

\* int(x) for a finite double 0 <= x < 2^31
Truncate(x) == Small(ShiftRight(x.m, x.e))

-----
(* service/ingredient_combiner_service.py: the regular expressions *)

NoMatch == [matched |-> FALSE, g1 |-> "", g2 |-> ""]
Match(a, b) == [matched |-> TRUE, g1 |-> a, g2 |-> b]

\* what "(.*)$" leaves of the rest of a string: "$" also matches before a
\* final newline, and "." matches no newline
BeforeDollar(tail) ==
    IF Char(tail, Len(tail)) = "\n" THEN SubSeq(tail, 1, Len(tail) - 1) ELSE tail

\* re.match(r'^(\d+(?:\.\d+)?)\s*(.*)$', q)
re_number(q) ==
    LET groups(d, n, body) ==
            IF d > 0 /\ ~Contains(body, "\n")
            THEN Match(SubSeq(q, 1, n), body)
            ELSE NoMatch
        rest(n, w) == BeforeDollar(SubSeq(q, n + w + 1, Len(q)))
        spaces(d, n) == groups(d, n, rest(n, RunLen(q, n + 1, Whitespace)))
        number(d, f) == spaces(d, IF f > 0 THEN d + 1 + f ELSE d)
        fraction(d) ==
            number(d, IF Char(q, d + 1) = "." THEN RunLen(q, d + 2, Digits) ELSE 0)
    IN  fraction(RunLen(q, 1, Digits))

CountLabels == {"piece", "pieces", "large", "medium", "small"}

\* re.match(r'^(\d+)\s+(pieces?|large|medium|small)$', q)
re_pieces(q) ==
    LET groups(d, w, body) ==
            IF d > 0 /\ w > 0 /\ body \in CountLabels
            THEN Match(SubSeq(q, 1, d), body)
            ELSE NoMatch
        rest(d, w) == groups(d, w, BeforeDollar(SubSeq(q, d + w + 1, Len(q))))
        spaces(d) == rest(d, RunLen(q, d + 1, Whitespace))
    IN  spaces(RunLen(q, 1, Digits))

\* re.match(r'^(\d+)x\s+(.*)$', q)
re_nx(q) ==
    LET groups(d, w, body) ==
            IF d > 0 /\ Char(q, d + 1) = "x" /\ w > 0 /\ ~Contains(body, "\n")
            THEN Match(SubSeq(q, 1, d), body)
            ELSE NoMatch
        rest(d, w) == groups(d, w, BeforeDollar(SubSeq(q, d + w + 2, Len(q))))
        spaces(d) == rest(d, RunLen(q, d + 2, Whitespace))
    IN  spaces(RunLen(q, 1, Digits))

---------------------------------------------------------------------------
(* service/ingredient_combiner_service.py: unit families and formatting *)

is_weight_unit(unit) ==
    lower(unit) \in {"g", "gram", "grams", "kg", "kilogram", "kilograms"}

is_volume_unit(unit) ==
    lower(unit) \in {"ml", "milliliter", "milliliters", "l", "liter", "liters"}

convert_to_grams(value, unit) ==
    IF lower(unit) \in {"kg", "kilogram", "kilograms"} THEN FMul(value, 1000) ELSE value

convert_to_ml(value, unit) ==
    IF lower(unit) \in {"l", "liter", "liters"} THEN FMul(value, 1000) ELSE value

\* format_weight without the promotion to kg
format_weight_in_grams(grams) ==
    IF grams.inf THEN Raise("OverflowError")
    ELSE Return(str(Trunc(grams)) \o " g")

format_weight(grams) ==
    IF FGe(grams, 1000)
    THEN IF grams.inf THEN Raise("OverflowError")            \* int(kg) of inf
         ELSE IF grams.t % 10000 = 0                         \* kg == int(kg)
              THEN Return(str(grams.t \div 10000) \o " kg")
              ELSE Return(format_1f(grams.t) \o " kg")
    ELSE Return(str(Trunc(grams)) \o " g")

format_volume(ml) ==
    IF FGe(ml, 1000)
    THEN IF ml.inf THEN Raise("OverflowError")               \* int(l) of inf
         ELSE IF ml.t % 10000 = 0                            \* l == int(l)
              THEN Return(str(ml.t \div 10000) \o " l")
              ELSE Return(format_1f(ml.t) \o " l")
    ELSE Return(str(Trunc(ml)) \o " ml")

---------------------------------------------------------------------------
(* service/ingredient_combiner_service.py: add_quantities *)

\* the outcome of a branch that did not return: control goes on
Fallthrough == [exc |-> "None", ret |-> "", returned |-> FALSE]
Returned(o) == [exc |-> o.exc, ret |-> o.ret, returned |-> TRUE]

\* lines 188-216: both quantities are <number><rest>
add_numbers(q1, q2) ==
    LET same_unit(total, q1_unit) ==
            IF total.inf THEN Raise("OverflowError")              \* int(total) of inf
            ELSE IF IsWhole(total)
                 THEN Return(strip(str(Trunc(total)) \o " " \o q1_unit))
                 ELSE Return(strip(str_float(total) \o " " \o q1_unit))
        units(q1_num, q2_num, q1_unit, q2_unit) ==
            IF q1_unit = q2_unit
            THEN Returned(same_unit(FAdd(q1_num, q2_num), q1_unit))
            ELSE IF is_weight_unit(q1_unit) /\ is_weight_unit(q2_unit)
            THEN Returned(format_weight(FAdd(convert_to_grams(q1_num, q1_unit),
                                             convert_to_grams(q2_num, q2_unit))))
            ELSE IF is_volume_unit(q1_unit) /\ is_volume_unit(q2_unit)
            THEN Returned(format_volume(FAdd(convert_to_ml(q1_num, q1_unit),
                                             convert_to_ml(q2_num, q2_unit))))
            ELSE Fallthrough
        matches(q1_match, q2_match) ==
            IF ~(q1_match.matched /\ q2_match.matched) THEN Fallthrough
            ELSE units(float(q1_match.g1), float(q2_match.g1),
                       strip(q1_match.g2), strip(q2_match.g2))
    IN  matches(re_number(q1), re_number(q2))

\* lines 218-229: counts with the same label; line 224 converts the label of
\* the second match, group(2), with int(), which raises ValueError
add_counts(q1, q2) ==
    LET matches(pieces1_match, pieces2_match) ==
            IF pieces1_match.matched /\ pieces2_match.matched
               /\ pieces1_match.g2 = pieces2_match.g2
            THEN Returned(Raise("ValueError"))
            ELSE Fallthrough
    IN  matches(re_pieces(q1), re_pieces(q2))

\* lines 231-239: "Nx <rest>" with the same rest
add_nx(q1, q2) ==
    LET matches(nx1_match, nx2_match) ==
            IF nx1_match.matched /\ nx2_match.matched /\ nx1_match.g2 = nx2_match.g2
            THEN Returned(Return(str(int(nx1_match.g1) + int(nx2_match.g1))
                                 \o "x " \o nx1_match.g2))
            ELSE Fallthrough
    IN  matches(re_nx(q1), re_nx(q2))

\* lines 188-242: neither quantity is "as needed"
add_parsed(q1, q2) ==
    LET nx(x) ==
            IF x.returned THEN [exc |-> x.exc, ret |-> x.ret]
            ELSE Return(q1 \o " + " \o q2)
        counts(c) ==
            IF c.returned THEN [exc |-> c.exc, ret |-> c.ret]
            ELSE nx(add_nx(q1, q2))
        numbers(n) ==
            IF n.returned THEN [exc |-> n.exc, ret |-> n.ret]
            ELSE counts(add_counts(q1, q2))
    IN  numbers(add_numbers(q1, q2))

\* add_quantities without the "as needed" checks of lines 183-186
add_quantities_parse_first(q1, q2) == add_parsed(q1, q2)

add_quantities(q1, q2) ==
    IF q1 = "as needed" THEN Return(q2)
    ELSE IF q2 = "as needed" THEN Return(q1)
    ELSE add_parsed(q1, q2)

---------------------------------------------------------------------------
(* service/ingredient_combiner_service.py: scale_ingredients *)

\* dict.get(key, default) of an ingredient dict, a function on a subset of
\* {"name", "quantity"}; a missing name reads as None, which is as false as ""
Get(d, key, default) == IF key \in DOMAIN d THEN d[key] ELSE default

Ingredient(name, quantity) == [name |-> name, quantity |-> quantity]

\* scale_quantity with the product printed as str(float) gives it
scale_quantity_keep_decimal(original_quantity, quantity) ==
    LET fallback == str(quantity) \o "x " \o original_quantity
        scaled(new_amount, unit) ==
            IF new_amount.inf THEN fallback
            ELSE strip(str_float(new_amount) \o " " \o unit)
        counted(count, unit) ==
            str(count) \o " "
            \o (IF unit = "piece" /\ count > 1 THEN "pieces" ELSE unit)
        pieces(pieces_match) ==
            IF pieces_match.matched
            THEN counted(int(pieces_match.g1) * quantity, pieces_match.g2)
            ELSE fallback
        number(quantity_match) ==
            IF quantity_match.matched
            THEN scaled(FMul(float(quantity_match.g1), quantity), quantity_match.g2)
            ELSE pieces(re_pieces(original_quantity))
    IN  IF original_quantity = "as needed" THEN original_quantity
        ELSE number(re_number(original_quantity))

\* lines 90-125: the scaled quantity of one ingredient, for quantity > 1
scale_quantity(original_quantity, quantity) ==
    LET fallback == str(quantity) \o "x " \o original_quantity
        scaled(new_amount, unit) ==
            IF new_amount.inf
            THEN fallback       \* '.' not in 'inf': int(inf) raises, caught at line 121
            ELSE strip(rstrip(rstrip(str_float(new_amount), {"0"}), {"."})
                       \o " " \o unit)
        counted(count, unit) ==
            str(count) \o " "
            \o (IF unit = "piece" /\ count > 1 THEN "pieces" ELSE unit)
        pieces(pieces_match) ==
            IF pieces_match.matched
            THEN counted(int(pieces_match.g1) * quantity, pieces_match.g2)
            ELSE fallback
        number(quantity_match) ==
            IF quantity_match.matched
            THEN scaled(FMul(float(quantity_match.g1), quantity), quantity_match.g2)
            ELSE pieces(re_pieces(original_quantity))
    IN  IF original_quantity = "as needed" THEN original_quantity
        ELSE number(re_number(original_quantity))

RECURSIVE scale_loop(_, _)
scale_loop(ingredients, quantity) ==
    IF ingredients = <<>> THEN <<>>
    ELSE LET ingredient == Head(ingredients)
             name       == Get(ingredient, "name", "")
             rest       == scale_loop(Tail(ingredients), quantity)
         IN  IF name = "" THEN rest
             ELSE <<Ingredient(name,
                      scale_quantity(Get(ingredient, "quantity", "as needed"), quantity))>>
                  \o rest

scale_ingredients(ingredients, quantity) ==
    IF quantity <= 1 THEN Return(ingredients)
    ELSE Return(scale_loop(ingredients, quantity))

---------------------------------------------------------------------------
(* service/ingredient_combiner_service.py: combine_ingredients *)

\* the dict "combined": its entries in insertion order, each with its key
KeyIndex(combined, key) ==
    IF \E i \in 1..Len(combined) : combined[i].key = key
    THEN CHOOSE i \in 1..Len(combined) : combined[i].key = key
    ELSE 0

\* combine_step with the entry taking the name of the latest occurrence
combine_step_last_name(combined, ingredient) ==
    LET quantity == Get(ingredient, "quantity", "as needed")
        merged(i, sum) ==
            IF sum.exc # "None" THEN Raise(sum.exc)
            ELSE Return([combined EXCEPT ![i].quantity = sum.ret,
                                         ![i].name = ingredient.name])
        entry(name, i) ==
            IF name = "" THEN Return(combined)
            ELSE IF i > 0
            THEN merged(i, add_quantities(combined[i].quantity, quantity))
            ELSE Return(Append(combined,
                     [key |-> name, name |-> ingredient.name, quantity |-> quantity]))
        keyed(name) == entry(name, KeyIndex(combined, name))
    IN  keyed(lower(Get(ingredient, "name", "")))

\* lines 152-166: one turn of the loop; an exception of add_quantities escapes
combine_step(combined, ingredient) ==
    LET quantity == Get(ingredient, "quantity", "as needed")
        merged(i, sum) ==
            IF sum.exc # "None" THEN Raise(sum.exc)
            ELSE Return([combined EXCEPT ![i].quantity = sum.ret])
        entry(name, i) ==
            IF name = "" THEN Return(combined)
            ELSE IF i > 0
            THEN merged(i, add_quantities(combined[i].quantity, quantity))
            ELSE Return(Append(combined,
                     [key |-> name, name |-> ingredient.name, quantity |-> quantity]))
        keyed(name) == entry(name, KeyIndex(combined, name))
    IN  keyed(lower(Get(ingredient, "name", "")))

RECURSIVE combine_loop(_, _)
combine_loop(combined, ingredients_list) ==
    IF ingredients_list = <<>> THEN Return(combined)
    ELSE LET next(o) ==
                 IF o.exc # "None" THEN o
                 ELSE combine_loop(o.ret, Tail(ingredients_list))
         IN  next(combine_step(combined, Head(ingredients_list)))

\* list(combined.values())
Values(combined) ==
    [i \in 1..Len(combined) |-> Ingredient(combined[i].name, combined[i].quantity)]

combine_ingredients(ingredients_list) ==
    LET values(o) == IF o.exc # "None" THEN o ELSE Return(Values(o.ret))
    IN  IF ingredients_list = <<>> THEN Return(<<>>)
        ELSE values(combine_loop(<<>>, ingredients_list))

---------------------------------------------------------------------------
(* dish_ingre_service.py: DishIngredientService *)

\* an Optional value: None, or a value
None == [none |-> TRUE, value |-> ""]
Some(v) == [none |-> FALSE, value |-> v]

\* the dict dish_cache: its items in insertion order
CacheKeys(cache) == {cache[i].key : i \in 1..Len(cache)}

CacheGet(cache, key) ==
    cache[CHOOSE i \in 1..Len(cache) : cache[i].key = key].ingredients

\* lines 43-46: self.dish_cache[dish_name.lower()] = ingredients, row by row
RECURSIVE load_dish_cache(_, _)
load_dish_cache(cache, rows) ==
    IF rows = <<>> THEN cache
    ELSE LET key == lower(Head(rows).dish_name)
             new == [key |-> key, ingredients |-> Head(rows).ingredients]
         IN  load_dish_cache(
                 IF key \in CacheKeys(cache)
                 THEN [i \in 1..Len(cache) |->
                          IF cache[i].key = key THEN new ELSE cache[i]]
                 ELSE Append(cache, new),
                 Tail(rows))

\* lines 201-215: what _get_mapped_dish can return: the dish of a row whose
\* lowercased term is the lowercased input, None when there is none, and
\* None when the query fails (store_up = FALSE)
get_mapped_dish(mappings, user_input, store_up) ==
    LET rows == {r \in mappings : lower(r.user_term) = lower(user_input)}
    IN  IF ~store_up \/ rows = {} THEN {None}
        ELSE {Some(r.dish_name) : r \in rows}

\* The text of the collaborator's reply is a string of JSON tokens, one
\* character each: "[" and "]" are themselves, "A" and "B" are objects with
\* a name and a quantity, "n" is an object with a name only, and "x" is text
\* that is no JSON.  Separators are implied.
TextTokens == {"[", "]", "A", "B", "n", "x"}

TokenObject(c) ==
    IF c = "A" THEN [name |-> "chicken breast", quantity |-> "500g"]
    ELSE IF c = "B" THEN [name |-> "salt", quantity |-> "2 cups"]
    ELSE [name |-> "onion"]

Positions(text, c) == {i \in 1..Len(text) : Char(text, i) = c}

Min(S) == CHOOSE i \in S : \A j \in S : i <= j
Max(S) == CHOOSE i \in S : \A j \in S : i >= j

\* re.search(r'\[.*\]', text_response, re.DOTALL): from the first "[" to the
\* last "]"
json_match(text) ==
    LET opens  == Positions(text, "[")
        closes == Positions(text, "]")
    IN  IF opens # {} /\ closes # {} /\ Min(opens) < Max(closes)
        THEN Some(SubSeq(text, Min(opens), Max(closes)))
        ELSE None

\* the nesting depth after the first i tokens
Depth(s, i) ==
    Cardinality({j \in 1..i : Char(s, j) = "["})
    - Cardinality({j \in 1..i : Char(s, j) = "]"})

\* the indices of S in ascending order
RECURSIVE Ascending(_)
Ascending(S) == IF S = {} THEN <<>> ELSE <<Min(S)>> \o Ascending(S \ {Min(S)})

\* json.loads of a string that starts with "[" and ends with "]": None for
\* JSONDecodeError, else the items of the list that are objects (an item that
\* is a list counts as an item and is no object)
json_loads(s) ==
    LET ok      == /\ Positions(s, "x") = {}
                   /\ \A i \in 1..(Len(s) - 1) : Depth(s, i) >= 1
                   /\ Depth(s, Len(s)) = 0
        objects == Ascending({i \in 1..Len(s) :
                       Char(s, i) \in {"A", "B", "n"} /\ Depth(s, i) = 1})
        lists   == {i \in 1..Len(s) : Char(s, i) = "[" /\ Depth(s, i) = 2}
    IN  IF ok
        THEN Some([empty |-> objects = <<>> /\ lists = {},
                   dicts |-> [k \in 1..Len(objects) |-> TokenObject(Char(s, objects[k]))]])
        ELSE None

\* lines 286-296: the items that are dicts with both keys
RECURSIVE valid_ingredients(_)
valid_ingredients(dicts) ==
    IF dicts = <<>> THEN <<>>
    ELSE LET item == Head(dicts)
         IN  (IF "name" \in DOMAIN item /\ "quantity" \in DOMAIN item
              THEN <<Ingredient(item.name, item.quantity)>>
              ELSE <<>>)
             \o valid_ingredients(Tail(dicts))

\* _get_claude_direct_ingredients without the status check of line 268
get_claude_direct_ingredients_any_status(api_key, reply) ==
    LET m     == json_match(reply.text)
        list  == json_loads(m.value)
        valid == valid_ingredients(list.value.dicts)
    IN  IF api_key = "" THEN None
        ELSE IF reply.transport = "raises" THEN None
        ELSE IF reply.body # "json" THEN None
        ELSE IF m.none THEN None
        ELSE IF list.none THEN None
        ELSE IF list.value.empty THEN None
        ELSE IF valid = <<>> THEN None
        ELSE Some(valid)

\* lines 217-305.  A reply is [transport, status_code, body, text]:
\* requests.post raises or responds; the body is JSON of the expected shape
\* or not; text is the text of its first text item
get_claude_direct_ingredients(api_key, reply) ==
    LET m     == json_match(reply.text)
        list  == json_loads(m.value)
        valid == valid_ingredients(list.value.dicts)
    IN  IF api_key = "" THEN None                              \* line 219
        ELSE IF reply.transport = "raises" THEN None           \* line 303
        ELSE IF reply.status_code # 200 THEN None              \* line 268
        ELSE IF reply.body # "json" THEN None                  \* response.json() raises
        ELSE IF m.none THEN None                               \* line 281
        ELSE IF list.none THEN None                            \* line 298
        ELSE IF list.value.empty THEN None                     \* line 286
        ELSE IF valid = <<>> THEN None                         \* line 295
        ELSE Some(valid)

\* lines 27-34
household_items ==
    {"salt", "pepper", "olive oil", "vegetable oil", "canola oil", "cooking oil",
     "sugar", "flour", "baking powder", "baking soda", "vanilla extract",
     "soy sauce", "vinegar", "oil", "black pepper", "white pepper", "oregano",
     "basil", "thyme", "rosemary", "paprika", "cumin", "cinnamon", "nutmeg",
     "mayonnaise", "ketchup", "mustard", "hot sauce", "butter", "margarine",
     "dried herbs", "spices", "seasoning"}

\* any(word in name for word in words)
ContainsAny(name, words) == \E word \in words : Contains(name, word)

\* s[i:].startswith(w)
StartsWith(s, i, w) == i + Len(w) - 1 <= Len(s) /\ SubSeq(s, i, i + Len(w) - 1) = w

\* where the number \d+(?:\.\d+)? that starts at s[i] ends: the index after it
NumberEnd(s, i) ==
    LET fraction(n) ==
            IF Char(s, n) = "." /\ RunLen(s, n + 1, Digits) > 0
            THEN n + 1 + RunLen(s, n + 1, Digits)
            ELSE n
    IN  fraction(i + RunLen(s, i, Digits))

\* the search for a unit taking the number the text starts with as group 1
re_search_unit_leading_number(quantity, words) ==
    LET word_at(n) == \E w \in words : StartsWith(quantity, n, w)
        found(i) ==
            /\ Char(quantity, i) \in Digits
            /\ word_at(NumberEnd(quantity, i)
                       + RunLen(quantity, NumberEnd(quantity, i), Whitespace))
    IN  IF \E i \in 1..Len(quantity) : found(i)
        THEN Match(SubSeq(quantity, 1, NumberEnd(quantity, 1) - 1), "")
        ELSE NoMatch

\* re.search(r'(\d+(?:\.\d+)?)\s*(?:w1|w2s?)', quantity) for the words w1, w2
\* of a unit: the leftmost place where a number, any whitespace and one of
\* the words follow each other; g1 is the number.  A shorter number at the
\* same place is followed by a digit or by ".", so it matches nothing the
\* longest one does not.
re_search_unit(quantity, words) ==
    LET word_at(n) == \E w \in words : StartsWith(quantity, n, w)
        found(i) ==
            /\ Char(quantity, i) \in Digits
            /\ word_at(NumberEnd(quantity, i)
                       + RunLen(quantity, NumberEnd(quantity, i), Whitespace))
        group(i) == Match(SubSeq(quantity, i, NumberEnd(quantity, i) - 1), "")
    IN  IF \E i \in 1..Len(quantity) : found(i)
        THEN group(CHOOSE i \in 1..Len(quantity) :
                      found(i) /\ \A j \in 1..(i - 1) : ~found(j))
        ELSE NoMatch

\* f'{int(amount * factor)}{unit}' for amount = float(number)
converted(number, factor, unit) ==
    LET printed(amount) ==
            IF amount.inf THEN Raise("OverflowError")
            ELSE Return(str(Truncate(Times(amount, factor))) \o unit)
    IN  printed(float_binary64(number))

\* lines 150-199, with a tablespoon pattern that also reads "tsp"
standardize_measurement_spoons_alike(name, quantity) ==
    LET lb(m) ==
            IF m.matched THEN converted(m.g1, 454, "g")
            ELSE Return(quantity)
        oz(m) ==
            IF m.matched THEN converted(m.g1, 28, "g")
            ELSE lb(re_search_unit(quantity, {"lb", "pound"}))
        tsp(m) ==
            IF m.matched THEN converted(m.g1, 5, "ml")
            ELSE oz(re_search_unit(quantity, {"oz", "ounce"}))
        tbsp(m) ==
            IF m.matched THEN converted(m.g1, 15, "ml")
            ELSE tsp(re_search_unit(quantity, {"tsp", "teaspoon"}))
        cup(m) ==
            IF m.matched
            THEN IF ContainsAny(name, {"milk", "water", "juice", "broth", "stock"})
                 THEN converted(m.g1, 240, "ml")
                 ELSE converted(m.g1, 150, "g")
            ELSE tbsp(re_search_unit(quantity, {"tbsp", "tablespoon", "tsp"}))
    IN  IF quantity = "as needed"
        THEN IF ContainsAny(name, {"meat", "chicken", "beef", "pork", "steak"})
             THEN Return("250g")
             ELSE IF ContainsAny(name, {"fish", "salmon", "tuna"})
             THEN Return("200g")
             ELSE IF ContainsAny(name, {"vegetable", "carrot", "potato", "tomato"})
             THEN Return("100g")
             ELSE Return(quantity)
        ELSE cup(re_search_unit(quantity, {"cup"}))

\* lines 150-199
standardize_measurement(name, quantity) ==
    LET lb(m) ==
            IF m.matched THEN converted(m.g1, 454, "g")                \* line 195
            ELSE Return(quantity)                                      \* line 199
        oz(m) ==
            IF m.matched THEN converted(m.g1, 28, "g")                 \* line 189
            ELSE lb(re_search_unit(quantity, {"lb", "pound"}))
        tsp(m) ==
            IF m.matched THEN converted(m.g1, 5, "ml")                 \* line 183
            ELSE oz(re_search_unit(quantity, {"oz", "ounce"}))
        tbsp(m) ==
            IF m.matched THEN converted(m.g1, 15, "ml")                \* line 177
            ELSE tsp(re_search_unit(quantity, {"tsp", "teaspoon"}))
        cup(m) ==
            IF m.matched
            THEN IF ContainsAny(name, {"milk", "water", "juice", "broth", "stock"})
                 THEN converted(m.g1, 240, "ml")                       \* line 169
                 ELSE converted(m.g1, 150, "g")                        \* line 171
            ELSE tbsp(re_search_unit(quantity, {"tbsp", "tablespoon"}))
    IN  IF quantity = "as needed"
        THEN IF ContainsAny(name, {"meat", "chicken", "beef", "pork", "steak"})
             THEN Return("250g")
             ELSE IF ContainsAny(name, {"fish", "salmon", "tuna"})
             THEN Return("200g")
             ELSE IF ContainsAny(name, {"vegetable", "carrot", "potato", "tomato"})
             THEN Return("100g")
             ELSE Return(quantity)
        ELSE cup(re_search_unit(quantity, {"cup"}))

\* the pass of lines 132-146 testing the name as given, not lowercased
filter_step_name_as_given(fresh_ingredients, ingredient) ==
    LET appended(standardized) ==
            IF standardized.exc # "None" THEN standardized
            ELSE Return(Append(fresh_ingredients,
                               Ingredient(ingredient.name, standardized.ret)))
        step(name) ==
            IF ContainsAny(name, household_items)
            THEN Return(fresh_ingredients)
            ELSE appended(standardize_measurement(name, ingredient.quantity))
    IN  step(ingredient.name)

\* lines 132-146: one pass of the loop; what fresh_ingredients is after it
filter_step(fresh_ingredients, ingredient) ==
    LET appended(standardized) ==
            IF standardized.exc # "None" THEN standardized
            ELSE Return(Append(fresh_ingredients,
                               Ingredient(ingredient.name, standardized.ret)))
        step(name) ==
            IF ContainsAny(name, household_items)                      \* line 136
            THEN Return(fresh_ingredients)
            ELSE appended(standardize_measurement(name, ingredient.quantity))
    IN  step(lower(ingredient.name))

\* lines 131-146: the loop over the ingredients that are left
RECURSIVE filter_loop(_, _)
filter_loop(fresh_ingredients, rest) ==
    LET next(o) == IF o.exc # "None" THEN o ELSE filter_loop(o.ret, Tail(rest))
    IN  IF rest = <<>> THEN Return(fresh_ingredients)
        ELSE next(filter_step(fresh_ingredients, Head(rest)))

\* lines 128-148
filter_fresh_ingredients(ingredients_list) == filter_loop(<<>>, ingredients_list)

NonEmpty(p) == p # ""

\* part.split(separator)
RECURSIVE split(_, _)
split(part, separator) ==
    LET cut(i) == <<SubSeq(part, 1, i - 1)>> \o split(SubSeq(part, i + 1, Len(part)), separator)
    IN  IF ~Contains(part, separator) THEN <<part>>
        ELSE cut(CHOOSE i \in 1..Len(part) :
                    /\ Char(part, i) = separator
                    /\ \A j \in 1..(i - 1) : Char(part, j) # separator)

\* line 369: [p.strip() for p in part.split(separator) if p.strip()]
stripped_pieces(part, separator) ==
    LET pieces(ps) == SelectSeq([i \in 1..Len(ps) |-> strip(ps[i])], NonEmpty)
    IN  pieces(split(part, separator))

\* lines 367-369: the pieces of every part, in order
RECURSIVE split_parts(_, _)
split_parts(parts, separator) ==
    IF parts = <<>> THEN <<>>
    ELSE stripped_pieces(Head(parts), separator) \o split_parts(Tail(parts), separator)

Letters == {Char(LowerCase, i) : i \in 1..26} \cup {Char(UpperCase, i) : i \in 1..26}

\* where the number \d+(?:\.\d+)?(?:/\d+)? that starts s ends: the index
\* after it, 1 when s starts with no digit
AmountEnd(s) ==
    LET slash(n) ==
            IF Char(s, n) = "/" /\ RunLen(s, n + 1, Digits) > 0
            THEN n + 1 + RunLen(s, n + 1, Digits)
            ELSE n
    IN  slash(NumberEnd(s, 1))

\* re.match(r'^(\d+(?:\.\d+)?(?:/\d+)?)\s*([a-zA-Z]+)?\s+(.+)$', ingredient)
\* for a stripped token: n is the index after the number, p the index after
\* the whitespace that follows it.  The unit is the whole word at p, when
\* whitespace follows the word; without a unit the name starts at p, after
\* at least one blank.  "." matches no newline, so the name holds none.
\* g2 is group 2 or "", g3 is group 3.
re_quantity(ingredient) ==
    LET name_from(k) == SubSeq(ingredient, k, Len(ingredient))
        groups(n, p, u, k) ==
            IF n = 1 THEN [matched |-> FALSE, g1 |-> "", g2 |-> "", g3 |-> ""]
            ELSE IF u > p /\ k > u /\ ~Contains(name_from(k), "\n")
            THEN [matched |-> TRUE, g1 |-> SubSeq(ingredient, 1, n - 1),
                  g2 |-> SubSeq(ingredient, p, u - 1), g3 |-> name_from(k)]
            ELSE IF p > n /\ ~Contains(name_from(p), "\n")
            THEN [matched |-> TRUE, g1 |-> SubSeq(ingredient, 1, n - 1),
                  g2 |-> "", g3 |-> name_from(p)]
            ELSE [matched |-> FALSE, g1 |-> "", g2 |-> "", g3 |-> ""]
        word(n, p, u) == groups(n, p, u, u + RunLen(ingredient, u, Whitespace))
        blanks(n, p) == word(n, p, p + RunLen(ingredient, p, Letters))
        number(n) == blanks(n, n + RunLen(ingredient, n, Whitespace))
    IN  number(AmountEnd(ingredient))

\* the ingredient of one token, the quantity left as f"{amount} {unit}"
parse_token_untrimmed(ingredient) ==
    LET made(m) ==
            IF m.matched THEN Ingredient(m.g3, m.g1 \o " " \o m.g2)
            ELSE Ingredient(ingredient, "as needed")
    IN  made(re_quantity(ingredient))

\* lines 372-390: the ingredient of one token
parse_token(ingredient) ==
    LET made(m) ==
            IF m.matched THEN Ingredient(m.g3, strip(m.g1 \o " " \o m.g2))
            ELSE Ingredient(ingredient, "as needed")
    IN  made(re_quantity(ingredient))

\* lines 351-392, for an Optional string
parse_ingredients(ingredients_string) ==
    LET ingredients_list(parts) == [i \in 1..Len(parts) |-> parse_token(parts[i])]
    IN  IF ingredients_string.none \/ ingredients_string.value = "" THEN <<>>
        ELSE ingredients_list(split_parts(split_parts(<<ingredients_string.value>>, ";"), ","))

\* the number of suggestions get_ingredients asks for
SuggestionCount == 5

\* _get_popular_dishes returning every key of the cache
get_popular_dishes_all(cache, count) == [i \in 1..Len(cache) |-> cache[i].key]

\* lines 307-310: list(self.dish_cache.keys())[:count]
get_popular_dishes(cache, count) ==
    [i \in 1..(IF Len(cache) < count THEN Len(cache) ELSE count) |-> cache[i].key]

\* lines 92-93 and 104-105: the cached text parsed, then filtered
cached_ingredients(ingredients_data) ==
    filter_fresh_ingredients(parse_ingredients(Some(ingredients_data)))

\* get_ingredients taking the alias as found, without the cache check of
\* line 102: a dish that is no key of the cache has no ingredients
get_ingredients_alias_unchecked(cache, api_key, user_dish_input, mapped_dish, reply) ==
    LET found(o, dish, match_type) ==
            IF o.exc # "None" THEN o
            ELSE Return([dish |-> dish, ingredients |-> o.ret, match_type |-> match_type])
        generated(o) ==
            IF o.exc # "None" THEN o
            ELSE Return([dish |-> user_dish_input,
                         ingredients |-> o.ret,
                         match_type |-> "claude_generated",
                         note |-> "Fresh ingredients generated by Claude AI"])
        fallback(claude_ingredients) ==
            IF ~claude_ingredients.none /\ claude_ingredients.value # <<>>
            THEN generated(Return(claude_ingredients.value))
            ELSE Return([error |-> "No matching dish found",
                         suggestions |-> get_popular_dishes(cache, SuggestionCount)])
        resolve(user_input) ==
            IF user_input \in CacheKeys(cache)
            THEN found(cached_ingredients(CacheGet(cache, user_input)),
                       user_input, "exact")
            ELSE IF ~mapped_dish.none /\ mapped_dish.value # ""
            THEN found(IF lower(mapped_dish.value) \in CacheKeys(cache)
                  THEN cached_ingredients(CacheGet(cache, lower(mapped_dish.value)))
                  ELSE Return(<<>>),
                       mapped_dish.value, "mapped")
            ELSE fallback(get_claude_direct_ingredients(api_key, reply))
    IN  resolve(strip(lower(user_dish_input)))

\* get_ingredients passing the collaborator's list through the filter as well
get_ingredients_filter_generated(cache, api_key, user_dish_input, mapped_dish, reply) ==
    LET found(o, dish, match_type) ==
            IF o.exc # "None" THEN o
            ELSE Return([dish |-> dish, ingredients |-> o.ret, match_type |-> match_type])
        generated(o) ==
            IF o.exc # "None" THEN o
            ELSE Return([dish |-> user_dish_input,
                         ingredients |-> o.ret,
                         match_type |-> "claude_generated",
                         note |-> "Fresh ingredients generated by Claude AI"])
        fallback(claude_ingredients) ==
            IF ~claude_ingredients.none /\ claude_ingredients.value # <<>>
            THEN generated(filter_fresh_ingredients(claude_ingredients.value))
            ELSE Return([error |-> "No matching dish found",
                         suggestions |-> get_popular_dishes(cache, SuggestionCount)])
        resolve(user_input) ==
            IF user_input \in CacheKeys(cache)
            THEN found(cached_ingredients(CacheGet(cache, user_input)),
                       user_input, "exact")
            ELSE IF ~mapped_dish.none /\ mapped_dish.value # ""
                    /\ lower(mapped_dish.value) \in CacheKeys(cache)
            THEN found(cached_ingredients(CacheGet(cache, lower(mapped_dish.value))),
                       mapped_dish.value, "mapped")
            ELSE fallback(get_claude_direct_ingredients(api_key, reply))
    IN  resolve(strip(lower(user_dish_input)))

\* get_ingredients looking the name up as it was given, without line 87
get_ingredients_name_as_given(cache, api_key, user_dish_input, mapped_dish, reply) ==
    LET found(o, dish, match_type) ==
            IF o.exc # "None" THEN o
            ELSE Return([dish |-> dish, ingredients |-> o.ret, match_type |-> match_type])
        generated(o) ==
            IF o.exc # "None" THEN o
            ELSE Return([dish |-> user_dish_input,
                         ingredients |-> o.ret,
                         match_type |-> "claude_generated",
                         note |-> "Fresh ingredients generated by Claude AI"])
        fallback(claude_ingredients) ==
            IF ~claude_ingredients.none /\ claude_ingredients.value # <<>>
            THEN generated(Return(claude_ingredients.value))
            ELSE Return([error |-> "No matching dish found",
                         suggestions |-> get_popular_dishes(cache, SuggestionCount)])
        resolve(user_input) ==
            IF user_input \in CacheKeys(cache)
            THEN found(cached_ingredients(CacheGet(cache, user_input)),
                       user_input, "exact")
            ELSE IF ~mapped_dish.none /\ mapped_dish.value # ""
                    /\ lower(mapped_dish.value) \in CacheKeys(cache)
            THEN found(cached_ingredients(CacheGet(cache, lower(mapped_dish.value))),
                       mapped_dish.value, "mapped")
            ELSE fallback(get_claude_direct_ingredients(api_key, reply))
    IN  resolve(user_dish_input)

\* lines 81-126, given what _get_mapped_dish returned and the collaborator's
\* reply
get_ingredients(cache, api_key, user_dish_input, mapped_dish, reply) ==
    LET found(o, dish, match_type) ==
            IF o.exc # "None" THEN o
            ELSE Return([dish |-> dish, ingredients |-> o.ret, match_type |-> match_type])
        generated(o) ==
            IF o.exc # "None" THEN o
            ELSE Return([dish |-> user_dish_input,
                         ingredients |-> o.ret,
                         match_type |-> "claude_generated",
                         note |-> "Fresh ingredients generated by Claude AI"])
        fallback(claude_ingredients) ==
            IF ~claude_ingredients.none /\ claude_ingredients.value # <<>>
            THEN generated(Return(claude_ingredients.value))
            ELSE Return([error |-> "No matching dish found",
                         suggestions |-> get_popular_dishes(cache, SuggestionCount)])
        resolve(user_input) ==
            IF user_input \in CacheKeys(cache)
            THEN found(cached_ingredients(CacheGet(cache, user_input)),
                       user_input, "exact")
            ELSE IF ~mapped_dish.none /\ mapped_dish.value # ""
                    /\ lower(mapped_dish.value) \in CacheKeys(cache)
            THEN found(cached_ingredients(CacheGet(cache, lower(mapped_dish.value))),
                       mapped_dish.value, "mapped")
            ELSE fallback(get_claude_direct_ingredients(api_key, reply))
    IN  resolve(strip(lower(user_dish_input)))

\* the upsert of one term as an insert alone
upsert_insert_only(mappings, term, dish_name) ==
    mappings \cup {[user_term |-> lower(term), dish_name |-> dish_name]}

\* lines 325-345: the rows after the upsert of one term
upsert(mappings, term, dish_name) ==
    {r \in mappings : r.user_term # lower(term)}
    \cup {[user_term |-> lower(term), dish_name |-> dish_name]}

RECURSIVE upsert_all(_, _, _)
upsert_all(mappings, terms, dish_name) ==
    IF terms = <<>> THEN mappings
    ELSE upsert_all(upsert(mappings, Head(terms), dish_name), Tail(terms), dish_name)

---------------------------------------------------------------------------
(* service/ingredient_combiner_service.py: categories *)

\* lines 328, 333, 338-339, 344, 349, 354
meat_keywords ==
    {"beef", "chicken", "pork", "turkey", "veal", "lamb", "ground meat", "steak", "sausage"}
fish_keywords ==
    {"fish", "salmon", "tuna", "cod", "tilapia", "shrimp", "seafood", "crab", "lobster"}
produce_keywords ==
    {"vegetable", "fruit", "tomato", "lettuce", "onion", "garlic", "pepper", "carrot",
     "broccoli", "cabbage", "spinach", "apple", "orange", "banana", "herb", "lemon"}
dairy_keywords == {"milk", "cheese", "yogurt", "butter", "cream", "dairy", "ice cream"}
grain_keywords ==
    {"rice", "pasta", "bread", "flour", "cereal", "oat", "grain", "wheat", "barley"}
condiment_keywords ==
    {"sauce", "oil", "vinegar", "ketchup", "mustard", "mayo", "dressing", "seasoning", "spice"}

\* the chain of tests of lines 329-359, for an ingredient already lowercased
first_category(ingredient, meat, fish) ==
    IF ContainsAny(ingredient, meat) THEN "Meat"
    ELSE IF ContainsAny(ingredient, fish) THEN "Fish"
    ELSE IF ContainsAny(ingredient, produce_keywords) THEN "Produce"
    ELSE IF ContainsAny(ingredient, dairy_keywords) THEN "Dairy"
    ELSE IF ContainsAny(ingredient, grain_keywords) THEN "Grains"
    ELSE IF ContainsAny(ingredient, condiment_keywords) THEN "Condiments"
    ELSE "Other"

\* determine_category testing the name as given, without line 325
determine_category_as_given(ingredient_name) ==
    first_category(ingredient_name, meat_keywords, fish_keywords)

\* lines 323-359
determine_category(ingredient_name) ==
    first_category(lower(ingredient_name), meat_keywords, fish_keywords)

\* views.py, lines 853-854 and 859-860: the lists of categorize_ingredient
\* that differ from those of determine_category
views_meat_keywords ==
    meat_keywords \cup {"bacon", "ham", "salami", "sausages"}
views_fish_keywords ==
    fish_keywords \cup {"clam", "oyster", "mussel", "scallop", "scallops",
                        "crab legs", "crab claws"}

\* views.py, lines 840-886
categorize_ingredient(ingredient) ==
    first_category(lower(ingredient), views_meat_keywords, views_fish_keywords)

\* lines 367-368, and views.py lines 899-900
pantry_keywords ==
    {"salt", "pepper", "sugar", "flour", "oil", "vinegar", "spice", "herb", "seasoning",
     "stock", "pasta", "rice", "grain", "canned", "dried", "baking", "sauce"}

\* views.py, lines 888-902
is_pantry_item(ingredient) == ContainsAny(lower(ingredient), pantry_keywords)

\* lines 305-313: the keys of categories, in insertion order
CategoryOrder == <<"Meat", "Fish", "Produce", "Dairy", "Grains", "Condiments", "Other">>

\* a dict of lists: its items in insertion order, [key, value]
Item(k, v) == [key |-> k, value |-> v]

\* ingredient.get('name', '')
GetName(ingredient) == Get(ingredient, "name", "")

\* lines 305-313
empty_categories == [i \in 1..Len(CategoryOrder) |-> Item(CategoryOrder[i], <<>>)]

\* line 318: categories[category].append(ingredient)
append_to(categories, category, ingredient) ==
    [i \in 1..Len(categories) |->
        IF categories[i].key = category
        THEN Item(category, Append(categories[i].value, ingredient))
        ELSE categories[i]]

\* lines 315-318: the loop over the ingredients that are left
RECURSIVE categorize_loop(_, _)
categorize_loop(categories, ingredients) ==
    IF ingredients = <<>> THEN categories
    ELSE categorize_loop(
             append_to(categories,
                       determine_category(lower(GetName(Head(ingredients)))),
                       Head(ingredients)),
             Tail(ingredients))

HasItems(item) == item.value # <<>>

\* categorize_ingredients keeping every category, without the filter of
\* line 321
categorize_ingredients_all_keys(ingredients) ==
    categorize_loop(empty_categories, ingredients)

\* lines 294-321
categorize_ingredients(ingredients) ==
    SelectSeq(categorize_loop(empty_categories, ingredients), HasItems)

\* What the alias store and the collaborator answer while one dish is
\* resolved: [mapped_dish, reply].

\* lines 27-50: one pass of the loop over selected_dishes; acc holds
\* all_ingredients, found_dishes and missing_dishes.  A dish without a name,
\* or with an empty one, is skipped.
dish_step(cache, api_key, acc, dish, answer) ==
    LET extended(result, scaled) ==
            IF scaled.exc # "None" THEN scaled
            ELSE Return([all_ingredients |-> acc.all_ingredients \o scaled.ret,
                         found_dishes |-> Append(acc.found_dishes,
                                                 Get(result, "dish", dish.name)),
                         missing_dishes |-> acc.missing_dishes])
        resolved(o) ==
            IF o.exc # "None" THEN o
            ELSE IF "error" \in DOMAIN o.ret                           \* line 36
            THEN Return([acc EXCEPT !.missing_dishes = Append(@, dish.name)])
            ELSE extended(o.ret, scale_ingredients(Get(o.ret, "ingredients", <<>>),
                                                   Get(dish, "quantity", 1)))
    IN  IF Get(dish, "name", "") = "" THEN Return(acc)                 \* line 31
        ELSE resolved(get_ingredients(cache, api_key, dish.name,
                                      answer.mapped_dish, answer.reply))

\* lines 27-50
RECURSIVE dish_loop(_, _, _, _, _)
dish_loop(cache, api_key, acc, selected_dishes, answers) ==
    LET next(o) ==
            IF o.exc # "None" THEN o
            ELSE dish_loop(cache, api_key, o.ret, Tail(selected_dishes), Tail(answers))
    IN  IF selected_dishes = <<>> THEN Return(acc)
        ELSE next(dish_step(cache, api_key, acc, Head(selected_dishes), Head(answers)))

\* combine_dish_ingredients reporting success whenever a dish was asked for
combine_dish_ingredients_success_if_asked(cache, api_key, selected_dishes, answers) ==
    LET result(acc, combined) ==
            IF combined.exc # "None" THEN combined
            ELSE Return([success |-> Len(selected_dishes) > 0,
                         dishes |-> acc.found_dishes,
                         missing_dishes |-> acc.missing_dishes,
                         items_by_category |-> categorize_ingredients(combined.ret)])
        collected(o) ==
            IF o.exc # "None" THEN o
            ELSE result(o.ret, combine_ingredients(o.ret.all_ingredients))
    IN  collected(dish_loop(cache, api_key,
                            [all_ingredients |-> <<>>, found_dishes |-> <<>>,
                             missing_dishes |-> <<>>],
                            selected_dishes, answers))

\* lines 6-63, given the cache the new DishIngredientService loads and the
\* answers of the alias store and the collaborator, dish by dish
combine_dish_ingredients(cache, api_key, selected_dishes, answers) ==
    LET result(acc, combined) ==
            IF combined.exc # "None" THEN combined
            ELSE Return([success |-> Len(acc.found_dishes) > 0,
                         dishes |-> acc.found_dishes,
                         missing_dishes |-> acc.missing_dishes,
                         items_by_category |-> categorize_ingredients(combined.ret)])
        collected(o) ==
            IF o.exc # "None" THEN o
            ELSE result(o.ret, combine_ingredients(o.ret.all_ingredients))
    IN  collected(dish_loop(cache, api_key,
                            [all_ingredients |-> <<>>, found_dishes |-> <<>>,
                             missing_dishes |-> <<>>],
                            selected_dishes, answers))

IsPantry(ingredient) == is_pantry_item(GetName(ingredient))
NotPantry(ingredient) == ~is_pantry_item(GetName(ingredient))

\* views.py, lines 811-815: the pantry items of every category, in order
RECURSIVE pantry_of(_)
pantry_of(items_by_category) ==
    IF items_by_category = <<>> THEN <<>>
    ELSE SelectSeq(Head(items_by_category).value, IsPantry)
         \o pantry_of(Tail(items_by_category))

\* views.py, lines 820-824: every category without its pantry items
without_pantry(items_by_category) ==
    [i \in 1..Len(items_by_category) |->
        Item(items_by_category[i].key, SelectSeq(items_by_category[i].value, NotPantry))]

\* views.py, lines 818-832 leaving the categories it emptied in the map
separate_pantry_keep_empty(result) ==
    IF pantry_of(result.items_by_category) # <<>>
    THEN [success |-> result.success, dishes |-> result.dishes,
          missing_dishes |-> result.missing_dishes,
          items_by_category |-> without_pantry(result.items_by_category),
          pantry_items |-> pantry_of(result.items_by_category)]
    ELSE result

\* views.py, lines 810-832: the result after the pantry items are taken out
separate_pantry(result) ==
    IF pantry_of(result.items_by_category) # <<>>
    THEN [success |-> result.success, dishes |-> result.dishes,
          missing_dishes |-> result.missing_dishes,
          items_by_category |->
              SelectSeq(without_pantry(result.items_by_category), HasItems),
          pantry_items |-> pantry_of(result.items_by_category)]
    ELSE result

\* a Response: its status and its data
Response(status, data) == [status |-> status, data |-> data]

\* views.py, lines 785-838
search_dishes(cache, api_key, selected_meals, answers) ==
    LET answered(o) ==
            IF o.exc # "None"
            THEN Response(500, [success |-> FALSE, error |-> o.exc])
            ELSE Response(200, separate_pantry(o.ret))
    IN  IF selected_meals = <<>>
        THEN Response(400, [success |-> FALSE, error |-> "No meals selected"])
        ELSE answered(combine_dish_ingredients(cache, api_key, selected_meals, answers))

---------------------------------------------------------------------------
(* Bounds and input domains *)

MaxRows == 2          \* rows of food_ingredients loaded into the cache
MaxTerms == 2         \* terms of one add_dish_mapping call
MaxText == 4          \* tokens of a collaborator reply
MaxIngredients == 3   \* ingredients of a list given to combine_ingredients
MaxScaled == 2        \* ingredients of a list given to scale_ingredients
MaxServings == 3      \* servings given to scale_ingredients

\* all sequences over S of length at most n
RECURSIVE SeqsUpTo(_, _)
SeqsUpTo(S, n) ==
    IF n = 0 THEN {<<>>}
    ELSE LET T == SeqsUpTo(S, n - 1)
         IN  T \cup {Append(t, x) : t \in T, x \in S}

\* all strings over the characters of S of length at most n
RECURSIVE StringsUpTo(_, _)
StringsUpTo(S, n) ==
    IF n = 0 THEN {""}
    ELSE LET T == StringsUpTo(S, n - 1)
         IN  T \cup {t \o c : t \in T, c \in S}

DishRows ==
    { [dish_name |-> "Pasta", ingredients |-> "500g beef; 2 onions, salt"],
      [dish_name |-> "stew",  ingredients |-> "1 cup stock; carrot"],
      [dish_name |-> "STEW",  ingredients |-> "2 lb beef"] }

ApiKeys == {"", "sk-key"}

DishInputs == {"pasta", " Pasta ", "SPAG\n", "Soup", "tofu"}

MappingTerms == {"spag", "Soup"}

MappingDishes == {"Pasta", "Tofu", ""}

Reply(transport, status_code, body, text) ==
    [transport |-> transport, status_code |-> status_code, body |-> body, text |-> text]

Replies(texts) ==
    { Reply("raises", 0, "", ""),
      Reply("responds", 500, "json", "[A]"),
      Reply("responds", 200, "invalid", "") }
    \cup {Reply("responds", 200, "json", t) : t \in texts}

\* The sets below are enumerated in full where they are defined.

SomeTexts == {"", "x", "[]", "[x]", "[n]", "[A]", "x[BA]x", "[nB]", "[[A]]"}

\* every text of at most MaxText tokens; one kind of complete object is enough
AllTexts == {t : t \in StringsUpTo(TextTokens \ {"B"}, MaxText)}

SomeReplies == {r : r \in Replies(SomeTexts)}

AllReplies == {r : r \in Replies(AllTexts)}

Quantities ==
    { "as needed", "a pinch", "x", "",
      "100 g", "200 g", "500g", "250 g", "999 g", "999.5 g",
      "1kg", "1 kg", "0.5 kg", "1.5 kg", "1 G", "2 grams", "1 kilogram",
      "500ml", "250 ml", "999 ml", "1 l", "1.5 l", "2 liter",
      "2 cups", "3 cups", "1.5 cups", "1", "2.5",
      "1 piece", "2 pieces", "2 pieces\n", "1 large", "2 large", "1 small",
      "2x a pinch", "3x a pinch", "3x  a pinch", "2x onion",
      "2 cups + 300g", "3 cups + 300g", "2 cups + x", "3 cups + x",
      "a pinch + 1 g", "1 g\nx" }

\* a run of 309 digits: float() of it is inf
HugeNumber ==
    "999999999999999999999999999999999999999999999999999999999999999999999999999999999999999999999999999999999999999999999999999999999999999999999999999999999999999999999999999999999999999999999999999999999999999999999999999999999999999999999999999999999999999999999999999999999999999999999999999999999999999999999"

\* quantity texts of any length
AnyText ==
    {q : q \in Quantities
               \cup {HugeNumber \o " g", HugeNumber \o "kg", HugeNumber \o " cups"}}

Ingredients ==
    { Ingredient("Onion", "2 cups"), Ingredient("onion", "x"),
      Ingredient("ONION", "3 cups + x"), Ingredient("Onion", "as needed"),
      Ingredient("Beef", "500g"), Ingredient("beef", "1kg"),
      Ingredient("beef", "1 piece"), [name |-> "BEEF"],
      Ingredient("", "1 g"), [quantity |-> "2 cups"] }

AnyIngredients ==
    {i : i \in Ingredients \cup {Ingredient("beef", HugeNumber \o " g")}}

Servings == (0 - 1)..MaxServings

MaxFiltered == 3      \* ingredients of a list given to _filter_fresh_ingredients

\* names given to _standardize_measurement
MeasuredNames ==
    {"milk", "Milk", "soy milk", "beef stock", "chicken", "tuna steak", "salmon",
     "carrot", "sauce", "rice", ""}

Amounts ==
    {"0", "1", "2", "3", "16", "0.5", "1.5", "2.25", "4.1", "8.2", "0.82", "1.14"}

UnitForms ==
    {" cup", " cups", "cup", "  cups", " tbsp", " tablespoon", " tablespoons",
     " tsp", " teaspoons", " oz", "oz", " ounces", " lb", " pound", " pounds"}

\* quantity texts given to _standardize_measurement
Measures ==
    {q : q \in {n \o u : n \in Amounts, u \in UnitForms}
               \cup {"as needed", "As needed", "", "x", "2", "500g", "3 pieces",
                     "2 Cups", "1/2 cup", "1 cupcake", "about 2 cups", "1.5.2 cups",
                     "1 2 cups", "2 cups + 1 tbsp", "1 tbsp or 2 cups", "2\tcups",
                     "2 lbs", "10 glb", HugeNumber \o " cups", HugeNumber \o " lb"}}

\* the list of test_filter_fresh_ingredients
TestedList ==
    << Ingredient("Chicken breast", "500g"), Ingredient("Salt", "1 tsp"),
       Ingredient("Olive oil", "2 tbsp"), Ingredient("Tomatoes", "3 pieces") >>

FreshPool ==
    { Ingredient("Chicken breast", "500g"), Ingredient("Salt", "1 tsp"),
      Ingredient("Olive oil", "2 tbsp"), Ingredient("Tomatoes", "as needed"),
      Ingredient("Milk", "4.1 cups"), Ingredient("boiled egg", "2"),
      Ingredient("BUTTERnut squash", "2 cups") }

\* lists given to _filter_fresh_ingredients
FreshLists ==
    {l : l \in SeqsUpTo(FreshPool, MaxFiltered)
               \cup {TestedList, <<Ingredient("beef", HugeNumber \o " cups")>>}}

\* what _parse_ingredients is given: None, or a text
RawTexts ==
    {t : t \in {None} \cup
        {Some(s) : s \in
            {"", "500g beef; 2 onions, salt", "1 cup stock; carrot", "2 lb beef",
             ";,;", " ; a ,, b ;", "2", "2onions", "2 x", "2  large  onions",
             "1/2 cup sugar", "1.5 cups milk, 3 eggs", "2\tcups\tmilk", "2 a\nb",
             "2 \n b", "2 cups a\nb", "x 2 cups", "1.5/2 kg beef", "1. flour",
             "2 cups", "3 tbsp soy sauce; Olive Oil", "2!x y", "1/ 2 cup",
             "2 kg\nbeef;3", "500 g beef", "beef", "a;b,c;d", "4.1 cups milk",
             "eggs, 2 eggs", "2,5 kg beef"}}}

MaxCategorized == 3   \* ingredients of a list given to categorize_ingredients
MaxDishes == 2        \* dishes of one request

\* names given to the categorizers
CategoryNames ==
    {"chicken breast", "ground beef", "salmon fillet", "canned tuna", "tomatoes",
     "lettuce", "cheddar cheese", "milk", "white rice", "pasta", "olive oil",
     "soy sauce", "something unknown", "Chicken Breast", "SALMON", "Fish Sauce",
     "butter lettuce", "peanut butter", "rice vinegar", "tuna steak", "bacon",
     "graham cracker", "clam chowder", "goat cheese", "eggs", ""}

CategorizedPool ==
    { Ingredient("Chicken Breast", "500g"), Ingredient("beef", "1kg"),
      Ingredient("butter lettuce", "1"), Ingredient("white rice", "150g"),
      Ingredient("eggs", "2"), [quantity |-> "2 cups"] }

\* lists given to categorize_ingredients
CategorizedLists == {l : l \in SeqsUpTo(CategorizedPool, MaxCategorized)}

\* the rows of food_ingredients a new DishIngredientService loads
GroceryRows ==
    { << [dish_name |-> "Pasta", ingredients |-> "500g beef; 2 onions, salt, 200g pasta"],
         [dish_name |-> "stew",  ingredients |-> "1 cup stock; carrot; 2 lb beef"] >>,
      << >> }

\* the rows of dish_mappings
GroceryMappings ==
    { [user_term |-> "spag", dish_name |-> "Pasta"],
      [user_term |-> "soup", dish_name |-> "Ramen"] }

\* the dishes of a request
DishRequests ==
    { [name |-> " Pasta ", quantity |-> 2], [name |-> "spag", quantity |-> 3],
      [name |-> "tofu"], [quantity |-> 2] }

\* the answers while one dish is resolved: the alias store is up or down,
\* the collaborator replies with a list or fails; for a dish without a name
\* neither is asked
Answers(name) ==
    IF name = ""
    THEN {[mapped_dish |-> None, reply |-> Reply("responds", 500, "json", "[A]")]}
    ELSE {[mapped_dish |-> m, reply |-> r] :
            m \in get_mapped_dish(GroceryMappings, strip(lower(name)), TRUE) \cup {None},
            r \in {Reply("responds", 200, "json", "x[BA]x"), Reply("responds", 500, "json", "[A]")}}

\* the requests of at most MaxDishes dishes, each dish with its answers
RECURSIVE Answered(_)
Answered(n) ==
    IF n = 0 THEN {[selected_dishes |-> <<>>, answers |-> <<>>]}
    ELSE {[selected_dishes |-> Append(a.selected_dishes, d),
           answers |-> Append(a.answers, w)] :
              a \in {b \in Answered(n - 1) : Len(b.selected_dishes) = n - 1},
              <<d, w>> \in {<<d, w>> \in DishRequests \X UNION {Answers(Get(e, "name", "")) : e \in DishRequests} :
                                 w \in Answers(Get(d, "name", ""))}}
         \cup Answered(n - 1)

GroceryRequests == {a : a \in Answered(MaxDishes)}

---------------------------------------------------------------------------
(* The service: construction, resolution, alias upsert *)

Unused == <<>>

\* the call returns o.ret, or o.exc escapes it
Outcome(o) == ret' = o.ret /\ exc' = o.exc

\* lines 17-24: the cache is loaded once; a failing load leaves the rows
\* loaded so far
Init ==
    /\ \E rows \in SeqsUpTo(DishRows, MaxRows) :
           dish_cache = load_dish_cache(<<>>, rows)
    /\ claude_api_key \in ApiKeys
    /\ games = NoModule
    /\ dish_mappings = {}
    /\ call = "idle"
    /\ args = Unused
    /\ ret = Unused
    /\ exc = "None"

\* get_ingredients recording the requested name as an alias of the dish it
\* resolved to
GetIngredientsLearning(replies) ==
    /\ call = "idle"
    /\ \E user_dish_input \in DishInputs, store_up \in BOOLEAN, reply \in replies :
      \E mapped_dish \in get_mapped_dish(dish_mappings,
                                         strip(lower(user_dish_input)), store_up) :
        LET learned(o) ==
                /\ Outcome(o)
                /\ dish_mappings' =
                       IF o.exc = "None" /\ "dish" \in DOMAIN o.ret
                       THEN upsert(dish_mappings, strip(lower(user_dish_input)), o.ret.dish)
                       ELSE dish_mappings
        IN  /\ call' = "get_ingredients"
            /\ args' = [user_dish_input |-> user_dish_input, store_up |-> store_up,
                        mapped_dish |-> mapped_dish, reply |-> reply]
            /\ learned(get_ingredients(dish_cache, claude_api_key, user_dish_input,
                                       mapped_dish, reply))
            /\ UNCHANGED <<dish_cache, claude_api_key, games>>

GetIngredients(replies) ==
    /\ call = "idle"
    /\ \E user_dish_input \in DishInputs, store_up \in BOOLEAN, reply \in replies :
      \E mapped_dish \in get_mapped_dish(dish_mappings,
                                         strip(lower(user_dish_input)), store_up) :
        /\ call' = "get_ingredients"
        /\ args' = [user_dish_input |-> user_dish_input, store_up |-> store_up,
                    mapped_dish |-> mapped_dish, reply |-> reply]
        /\ Outcome(get_ingredients(dish_cache, claude_api_key, user_dish_input,
                                   mapped_dish, reply))
        /\ UNCHANGED <<dish_cache, dish_mappings, claude_api_key, games>>

GetClaudeDirectIngredients(replies) ==
    /\ call = "idle"
    /\ \E reply \in replies :
        /\ call' = "_get_claude_direct_ingredients"
        /\ args' = [reply |-> reply]
        /\ ret' = get_claude_direct_ingredients(claude_api_key, reply)
        /\ exc' = "None"
        /\ UNCHANGED <<dish_cache, dish_mappings, claude_api_key, games>>

\* lines 312-349: the store fails after `written` terms, or not at all
AddDishMapping ==
    /\ call = "idle"
    /\ \E dish_name \in MappingDishes,
       common_terms \in SeqsUpTo(MappingTerms, MaxTerms) \ {<<>>} :
      \E written \in 0..Len(common_terms) :
        /\ call' = "add_dish_mapping"
        /\ args' = [dish_name |-> dish_name, common_terms |-> common_terms,
                    written |-> written]
        /\ dish_mappings' = upsert_all(dish_mappings,
                                       SubSeq(common_terms, 1, written), dish_name)
        /\ ret' = (written = Len(common_terms))
        /\ exc' = "None"
        /\ UNCHANGED <<dish_cache, claude_api_key, games>>

\* the caller has the result; the next call can start
Done ==
    /\ call # "idle"
    /\ call' = "idle"
    /\ args' = Unused
    /\ ret' = Unused
    /\ exc' = "None"
    /\ UNCHANGED <<dish_cache, dish_mappings, claude_api_key, games>>

Next == GetIngredients(SomeReplies) \/ AddDishMapping \/ Done

Spec == Init /\ [][Next]_vars

\* the collaborator's reply in full
InitCollaborator ==
    /\ dish_cache = load_dish_cache(<<>>, <<CHOOSE r \in DishRows : r.dish_name = "Pasta">>)
    /\ claude_api_key \in ApiKeys
    /\ games = NoModule
    /\ dish_mappings = {}
    /\ call = "idle"
    /\ args = Unused
    /\ ret = Unused
    /\ exc = "None"

NextCollaborator ==
    \/ GetClaudeDirectIngredients(AllReplies)
    \/ \E user_dish_input \in {"tofu"}, reply \in AllReplies :
        /\ call = "idle"
        /\ call' = "get_ingredients"
        /\ args' = [user_dish_input |-> user_dish_input, store_up |-> TRUE,
                    mapped_dish |-> None, reply |-> reply]
        /\ Outcome(get_ingredients(dish_cache, claude_api_key, user_dish_input,
                                   None, reply))
        /\ UNCHANGED <<dish_cache, dish_mappings, claude_api_key, games>>
    \/ Done

SpecCollaborator == InitCollaborator /\ [][NextCollaborator]_vars

---------------------------------------------------------------------------
(* The quantity functions, applied to inputs of bounded sets *)

InitQuantity ==
    /\ dish_cache = <<>>
    /\ claude_api_key = ""
    /\ games = NoModule
    /\ dish_mappings = {}
    /\ call = "idle"
    /\ args = Unused
    /\ ret = Unused
    /\ exc = "None"

AddQuantities(texts) ==
    /\ call = "idle"
    /\ \E q1 \in texts, q2 \in texts :
        /\ call' = "add_quantities"
        /\ args' = <<q1, q2>>
        /\ Outcome(add_quantities(q1, q2))
        /\ UNCHANGED <<dish_cache, dish_mappings, claude_api_key, games>>

\* the lists of the pool, and one ingredient with each quantity text
ScaleIngredients(pool, texts) ==
    /\ call = "idle"
    /\ \E ingredients \in SeqsUpTo(pool, MaxScaled)
                           \cup {<<Ingredient("beef", q)>> : q \in texts},
          quantity \in Servings :
        /\ call' = "scale_ingredients"
        /\ args' = <<ingredients, quantity>>
        /\ Outcome(scale_ingredients(ingredients, quantity))
        /\ UNCHANGED <<dish_cache, dish_mappings, claude_api_key, games>>

CombineIngredients(pool) ==
    /\ call = "idle"
    /\ \E ingredients_list \in SeqsUpTo(pool, MaxIngredients) :
        /\ call' = "combine_ingredients"
        /\ args' = <<ingredients_list>>
        /\ Outcome(combine_ingredients(ingredients_list))
        /\ UNCHANGED <<dish_cache, dish_mappings, claude_api_key, games>>

NextQuantity ==
    \/ AddQuantities(Quantities)
    \/ ScaleIngredients(Ingredients, Quantities)
    \/ CombineIngredients(Ingredients)
    \/ Done

SpecQuantity == InitQuantity /\ [][NextQuantity]_vars

NextAnyText ==
    \/ AddQuantities(AnyText)
    \/ ScaleIngredients(AnyIngredients, AnyText)
    \/ CombineIngredients(AnyIngredients)
    \/ Done

SpecAnyText == InitQuantity /\ [][NextAnyText]_vars

---------------------------------------------------------------------------
(* Parsing, filtering and normalisation, applied to inputs of bounded sets *)

StandardizeMeasurement ==
    /\ call = "idle"
    /\ \E name \in MeasuredNames, quantity \in Measures :
        /\ call' = "_standardize_measurement"
        /\ args' = <<name, quantity>>
        /\ Outcome(standardize_measurement(name, quantity))
        /\ UNCHANGED <<dish_cache, dish_mappings, claude_api_key, games>>

FilterFreshIngredients ==
    /\ call = "idle"
    /\ \E ingredients_list \in FreshLists :
        /\ call' = "_filter_fresh_ingredients"
        /\ args' = <<ingredients_list>>
        /\ Outcome(filter_fresh_ingredients(ingredients_list))
        /\ UNCHANGED <<dish_cache, dish_mappings, claude_api_key, games>>

ParseIngredients ==
    /\ call = "idle"
    /\ \E ingredients_string \in RawTexts :
        /\ call' = "_parse_ingredients"
        /\ args' = <<ingredients_string>>
        /\ ret' = parse_ingredients(ingredients_string)
        /\ exc' = "None"
        /\ UNCHANGED <<dish_cache, dish_mappings, claude_api_key, games>>

NextFresh ==
    \/ StandardizeMeasurement
    \/ FilterFreshIngredients
    \/ ParseIngredients
    \/ Done

SpecFresh == InitQuantity /\ [][NextFresh]_vars

---------------------------------------------------------------------------
(* The grocery list: categories, dishes of a request, pantry items *)

InitGrocery ==
    /\ \E rows \in GroceryRows : dish_cache = load_dish_cache(<<>>, rows)
    /\ claude_api_key = "sk-key"
    /\ games = NoModule
    /\ dish_mappings = GroceryMappings
    /\ call = "idle"
    /\ args = Unused
    /\ ret = Unused
    /\ exc = "None"

DetermineCategory ==
    /\ call = "idle"
    /\ \E ingredient_name \in CategoryNames :
        /\ call' = "determine_category"
        /\ args' = <<ingredient_name>>
        /\ ret' = determine_category(ingredient_name)
        /\ exc' = "None"
        /\ UNCHANGED <<dish_cache, dish_mappings, claude_api_key, games>>

CategorizeIngredient ==
    /\ call = "idle"
    /\ \E ingredient \in CategoryNames :
        /\ call' = "categorize_ingredient"
        /\ args' = <<ingredient>>
        /\ ret' = categorize_ingredient(ingredient)
        /\ exc' = "None"
        /\ UNCHANGED <<dish_cache, dish_mappings, claude_api_key, games>>

CategorizeIngredients ==
    /\ call = "idle"
    /\ \E ingredients \in CategorizedLists :
        /\ call' = "categorize_ingredients"
        /\ args' = <<ingredients>>
        /\ ret' = categorize_ingredients(ingredients)
        /\ exc' = "None"
        /\ UNCHANGED <<dish_cache, dish_mappings, claude_api_key, games>>

CombineDishIngredients ==
    /\ call = "idle"
    /\ \E request \in GroceryRequests :
        /\ call' = "combine_dish_ingredients"
        /\ args' = <<request.selected_dishes, request.answers>>
        /\ Outcome(combine_dish_ingredients(dish_cache, claude_api_key,
                                            request.selected_dishes, request.answers))
        /\ UNCHANGED <<dish_cache, dish_mappings, claude_api_key, games>>

SearchDishes ==
    /\ call = "idle"
    /\ \E request \in GroceryRequests :
        /\ call' = "search_dishes"
        /\ args' = <<request.selected_dishes, request.answers>>
        /\ ret' = search_dishes(dish_cache, claude_api_key,
                                request.selected_dishes, request.answers)
        /\ exc' = "None"
        /\ UNCHANGED <<dish_cache, dish_mappings, claude_api_key, games>>

NextGrocery ==
    \/ DetermineCategory
    \/ CategorizeIngredient
    \/ CategorizeIngredients
    \/ CombineDishIngredients
    \/ SearchDishes
    \/ Done

SpecGrocery == InitGrocery /\ [][NextGrocery]_vars

\* the calls that resolve dishes, on the stores of the grocery list
NextResolution ==
    \/ GetIngredients(SomeReplies)
    \/ CombineDishIngredients
    \/ Done

SpecResolution == InitGrocery /\ [][NextResolution]_vars

---------------------------------------------------------------------------
(* The service with a table of more dishes than it suggests *)

MaxTable == 7         \* rows of the larger food_ingredients table

\* the name of the i-th dish of the table
TableName(i) ==
    IF i = 1 THEN "Pasta" ELSE IF i = 2 THEN "Tofu" ELSE "Dish " \o str(i)

\* the table of n rows, read first to last or last to first
Table(n, ascending) ==
    [i \in 1..n |->
        [dish_name |-> TableName(IF ascending THEN i ELSE n + 1 - i),
         ingredients |-> str(IF ascending THEN i ELSE n + 1 - i) \o " onions"]]

Tables == {t : t \in {Table(n, a) : n \in 0..MaxTable, a \in BOOLEAN}}

\* rows of dish_mappings: an alias of a dish of the table and one of none
TableMappings ==
    { [user_term |-> "soup", dish_name |-> "Dish 3"],
      [user_term |-> "spag", dish_name |-> "Ramen"] }

InitSuggestions ==
    /\ \E rows \in Tables : dish_cache = load_dish_cache(<<>>, rows)
    /\ claude_api_key \in ApiKeys
    /\ games = NoModule
    /\ dish_mappings = TableMappings
    /\ call = "idle"
    /\ args = Unused
    /\ ret = Unused
    /\ exc = "None"

NextSuggestions == GetIngredients(SomeReplies) \/ Done

SpecSuggestions == InitSuggestions /\ [][NextSuggestions]_vars

---------------------------------------------------------------------------
(* get_ingredients one tier at a time.  args.consulted lists what the call
   has read so far: "dish_cache" for a lookup in the cache, "dish_mappings"
   for the query of _get_mapped_dish, "collaborator" for a requests.post *)

\* the reply of a collaborator that was not asked
Unasked == Reply("raises", 0, "", "")

\* lines 87-90.  Step 1: the exact match, which returns or goes on to step 2
ExactMatch ==
    /\ call = "idle"
    /\ \E user_dish_input \in DishInputs :
        /\ args' = [user_dish_input |-> user_dish_input, mapped_dish |-> None,
                    reply |-> Unasked, consulted |-> <<"dish_cache">>]
        /\ call' = IF strip(lower(user_dish_input)) \in CacheKeys(dish_cache)
                   THEN "get_ingredients.return"
                   ELSE "get_ingredients.mapped"
    /\ UNCHANGED <<dish_cache, dish_mappings, claude_api_key, games, ret, exc>>

\* lines 101-102.  Step 2: the alias store is asked; the cache is looked up
\* when it named a dish; the call returns or goes on to step 3
DirectMapping ==
    /\ call = "get_ingredients.mapped"
    /\ \E store_up \in BOOLEAN :
      \E mapped_dish \in get_mapped_dish(dish_mappings,
                                         strip(lower(args.user_dish_input)), store_up) :
        LET looked_up(named) ==
                /\ args' = [args EXCEPT
                              !.mapped_dish = mapped_dish,
                              !.consulted = @ \o <<"dish_mappings">>
                                              \o (IF named THEN <<"dish_cache">> ELSE <<>>)]
                /\ call' = IF named /\ lower(mapped_dish.value) \in CacheKeys(dish_cache)
                           THEN "get_ingredients.return"
                           ELSE "get_ingredients.claude"
        IN  looked_up(~mapped_dish.none /\ mapped_dish.value # "")
    /\ UNCHANGED <<dish_cache, dish_mappings, claude_api_key, games, ret, exc>>

\* step 3 with a second requests.post after one that failed
ClaudeResponseRetrying(replies) ==
    /\ call = "get_ingredients.claude"
    /\ \E reply \in replies :
        /\ call' = "get_ingredients.return"
        /\ args' = [args EXCEPT
                      !.reply = reply,
                      !.consulted =
                          @ \o (IF claude_api_key = "" THEN <<>>
                                ELSE IF reply.transport = "raises"
                                THEN <<"collaborator", "collaborator">>
                                ELSE <<"collaborator">>)]
    /\ UNCHANGED <<dish_cache, dish_mappings, claude_api_key, games, ret, exc>>

\* lines 113 and 217-305.  Step 3: with a key, one requests.post (line
\* 266), whatever comes of it
ClaudeResponse(replies) ==
    /\ call = "get_ingredients.claude"
    /\ \E reply \in replies :
        /\ call' = "get_ingredients.return"
        /\ args' = [args EXCEPT
                      !.reply = reply,
                      !.consulted = @ \o (IF claude_api_key = "" THEN <<>>
                                          ELSE <<"collaborator">>)]
    /\ UNCHANGED <<dish_cache, dish_mappings, claude_api_key, games, ret, exc>>

\* lines 91-98, 103-110 and 114-126: the result of the tier that was reached
ReturnResult ==
    /\ call = "get_ingredients.return"
    /\ call' = "get_ingredients"
    /\ Outcome(get_ingredients(dish_cache, claude_api_key, args.user_dish_input,
                               args.mapped_dish, args.reply))
    /\ UNCHANGED <<dish_cache, dish_mappings, claude_api_key, games, args>>

\* the caller takes the result
GetIngredientsReturn == call = "get_ingredients" /\ Done

NextTiers ==
    \/ ExactMatch
    \/ DirectMapping
    \/ ClaudeResponse(SomeReplies)
    \/ ReturnResult
    \/ GetIngredientsReturn

SpecTiers == InitSuggestions /\ [][NextTiers]_vars

---------------------------------------------------------------------------
(* Two add_dish_mapping calls at once.  Each call has its own cursor and
   every statement is committed as it is executed; the statements of the
   two calls interleave freely.  args.vendor is connection.vendor,
   args.before the rows before the calls, args.writers the position of each
   call: its arguments, the index i of the term it is at, the statement it
   executes next and the count its SELECT fetched.  ret is what each call
   returned, "True" or "False", and "running" until it has. *)

Writers == {1, 2}

Vendors == {"sqlite", "mysql"}

\* the terms of the two calls
ConcurrentTerms == {<<"Soup">>, <<"spag", "Soup">>, <<"soup", "spag">>}

ConcurrentDishes == {"Pasta", "Tofu"}

\* the rows before the calls
StoredBefore == {{}, {[user_term |-> "spag", dish_name |-> "Ramen"]}}

\* line 325: the first statement of a pass of the loop
FirstStatement(vendor) == IF vendor = "sqlite" THEN "select" ELSE "upsert"

InitConcurrent ==
    /\ dish_cache = <<>>
    /\ claude_api_key = ""
    /\ games = NoModule
    /\ dish_mappings \in StoredBefore
    /\ call = "add_dish_mapping"
    /\ \E vendor \in Vendors :
         args \in [vendor : {vendor},
                   before : {dish_mappings},
                   writers : [Writers -> [dish_name : ConcurrentDishes,
                                          common_terms : ConcurrentTerms,
                                          i : {1},
                                          pc : {FirstStatement(vendor)},
                                          count : {0}]]]
    /\ ret = [w \in Writers |-> "running"]
    /\ exc = "None"

\* the term a call is at, lowered as lines 328-340 give it to the store
TermOf(writer) == lower(writer.common_terms[writer.i])

\* line 325: the next term, or line 346 when there is none
NextTerm(w) ==
    LET writer == args.writers[w]
    IN  IF writer.i < Len(writer.common_terms)
        THEN /\ args' = [args EXCEPT !.writers[w].i = @ + 1,
                                     !.writers[w].pc = FirstStatement(args.vendor)]
             /\ UNCHANGED ret
        ELSE /\ args' = [args EXCEPT !.writers[w].pc = "done"]
             /\ ret' = [ret EXCEPT ![w] = "True"]

\* lines 328-329: SELECT COUNT(*) ... WHERE user_term = term
SelectCount(w) ==
    /\ args.writers[w].pc = "select"
    /\ args' = [args EXCEPT
                  !.writers[w].pc = "write",
                  !.writers[w].count =
                      Cardinality({r \in dish_mappings :
                                      r.user_term = TermOf(args.writers[w])})]
    /\ UNCHANGED <<dish_cache, dish_mappings, claude_api_key, games, call, ret, exc>>

\* lines 329-333: UPDATE ... SET dish_name WHERE user_term = term
Update(w) ==
    /\ args.writers[w].pc = "write"
    /\ args.writers[w].count > 0
    /\ dish_mappings' =
           {IF r.user_term = TermOf(args.writers[w])
            THEN [r EXCEPT !.dish_name = args.writers[w].dish_name] ELSE r :
                r \in dish_mappings}
    /\ NextTerm(w)
    /\ UNCHANGED <<dish_cache, claude_api_key, games, call, exc>>

\* the INSERT of lines 334-338 into a table without the UNIQUE of line 62
InsertUnconstrained(w) ==
    /\ args.writers[w].pc = "write"
    /\ args.writers[w].count = 0
    /\ dish_mappings' = dish_mappings \cup
           {[user_term |-> TermOf(args.writers[w]),
             dish_name |-> args.writers[w].dish_name]}
    /\ NextTerm(w)
    /\ UNCHANGED <<dish_cache, claude_api_key, games, call, exc>>

\* lines 334-338: INSERT; user_term is UNIQUE (line 62), so the store
\* refuses a second row of the term and the call returns False (lines
\* 347-349)
Insert(w) ==
    /\ args.writers[w].pc = "write"
    /\ args.writers[w].count = 0
    /\ IF \E r \in dish_mappings : r.user_term = TermOf(args.writers[w])
       THEN /\ args' = [args EXCEPT !.writers[w].pc = "done"]
            /\ ret' = [ret EXCEPT ![w] = "False"]
            /\ UNCHANGED dish_mappings
       ELSE /\ dish_mappings' = dish_mappings \cup
                   {[user_term |-> TermOf(args.writers[w]),
                     dish_name |-> args.writers[w].dish_name]}
            /\ NextTerm(w)
    /\ UNCHANGED <<dish_cache, claude_api_key, games, call, exc>>

\* lines 341-345: INSERT ... ON DUPLICATE KEY UPDATE, one statement
InsertOnDuplicateKeyUpdate(w) ==
    /\ args.writers[w].pc = "upsert"
    /\ dish_mappings' = upsert(dish_mappings, TermOf(args.writers[w]),
                               args.writers[w].dish_name)
    /\ NextTerm(w)
    /\ UNCHANGED <<dish_cache, claude_api_key, games, call, exc>>

NextConcurrent ==
    \E w \in Writers :
        \/ SelectCount(w)
        \/ Update(w)
        \/ Insert(w)
        \/ InsertOnDuplicateKeyUpdate(w)

SpecConcurrent == InitConcurrent /\ [][NextConcurrent]_vars

---------------------------------------------------------------------------
(* The service with cached dishes whose amounts are fractions *)

FractionRows ==
    << [dish_name |-> "Pasta", ingredients |-> "1/2 cup milk; 3/4 lb beef, 2 onions"],
       [dish_name |-> "Soup",
        ingredients |-> "1/4 cup rice; 5/2 tbsp lemon juice; 1/3 tsp ginger"],
       [dish_name |-> "Tofu", ingredients |-> "1/2 oz cheese, 10/16 cups stock; 3 eggs"] >>

FractionTables ==
    {t : t \in {SubSeq(FractionRows, 1, n) : n \in 0..3}
               \cup {<<FractionRows[3], FractionRows[1]>>}}

InitFractions ==
    /\ \E rows \in FractionTables : dish_cache = load_dish_cache(<<>>, rows)
    /\ claude_api_key \in ApiKeys
    /\ games = NoModule
    /\ dish_mappings \in {{}, {[user_term |-> "spag", dish_name |-> "Pasta"]}}
    /\ call = "idle"
    /\ args = Unused
    /\ ret = Unused
    /\ exc = "None"

NextFractions == GetIngredients(SomeReplies) \/ Done

SpecFractions == InitFractions /\ [][NextFractions]_vars

---------------------------------------------------------------------------
(* Game sessions: game_core.py and game_logic.py.  Each module keeps its
   games in a dict of its own; games[module] is the dict of a module in
   use, a function from game ids to game data.  created_at, which no
   function of the two modules reads back into a decision, is left out. *)

\* game_core.py lines 13-18, game_logic.py lines 14-20
INITIAL_SCORE == 0
INITIAL_TIME == 60
CORRECT_ACTION_POINTS == 10
INCORRECT_ACTION_POINTS == -5
DIY_CORRECT_POINTS == 15
EAT_CORRECT_POINTS == 15
EAT_INCORRECT_POINTS == -10
EAT_TRASH_POINTS == -15

\* games = {}
NoGames == <<>>

\* the outcome of a game function: what it raised or returned, and the dict
\* it leaves
Left(o, dict) == [exc |-> o.exc, ret |-> o.ret, games |-> dict]

\* game_core.py lines 20-55, game_logic.py lines 22-57, game_id being what
\* uuid.uuid4() gave
start_new_game(dict, player_id, game_id) ==
    LET game_data ==
            [id |-> game_id, player_id |-> player_id, score |-> INITIAL_SCORE,
             time_remaining |-> INITIAL_TIME, is_active |-> TRUE]
        created(stored) ==
            Left(Return([game_id |-> game_id, score |-> stored[game_id].score,
                         time_remaining |-> stored[game_id].time_remaining]), stored)
    IN  IF player_id = "" THEN Left(Raise("ValueError"), dict)        \* line 34
        ELSE created((game_id :> game_data) @@ dict)                   \* line 47

\* game_core.py lines 57-110 with the score left unclamped
game_core_update_game_state_unclamped(dict, game_id, action, food_type, diy_option) ==
    LET score_change ==
            IF action = "correct"
            THEN IF food_type = "green waste bin" /\ diy_option = "1"
                 THEN DIY_CORRECT_POINTS
                 ELSE CORRECT_ACTION_POINTS
            ELSE IF action = "incorrect" THEN INCORRECT_ACTION_POINTS
            ELSE 0
        scored(game) == [game EXCEPT !.score = game.score + score_change]
        ended(game) ==
            IF game.time_remaining <= 0 THEN [game EXCEPT !.is_active = FALSE] ELSE game
        returned(game) ==
            Left(Return([score |-> game.score, time_remaining |-> game.time_remaining,
                         is_game_over |-> game.time_remaining <= 0]),
                 [dict EXCEPT ![game_id] = game])
    IN  IF game_id \notin DOMAIN dict THEN Left(Raise("ValueError"), dict)
        ELSE IF ~dict[game_id].is_active THEN Left(Raise("ValueError"), dict)
        ELSE returned(ended(scored(dict[game_id])))

\* game_core.py lines 57-110
game_core_update_game_state(dict, game_id, action, food_type, diy_option) ==
    LET score_change ==
            IF action = "correct"
            THEN IF food_type = "green waste bin" /\ diy_option = "1"
                 THEN DIY_CORRECT_POINTS                               \* line 92
                 ELSE CORRECT_ACTION_POINTS                            \* line 95
            ELSE IF action = "incorrect" THEN INCORRECT_ACTION_POINTS  \* line 97
            ELSE 0                                                     \* line 80
        scored(game) == [game EXCEPT !.score = Max({0, game.score + score_change})]
        ended(game) ==
            IF game.time_remaining <= 0 THEN [game EXCEPT !.is_active = FALSE] ELSE game
        returned(game) ==
            Left(Return([score |-> game.score, time_remaining |-> game.time_remaining,
                         is_game_over |-> game.time_remaining <= 0]),
                 [dict EXCEPT ![game_id] = game])
    IN  IF game_id \notin DOMAIN dict THEN Left(Raise("ValueError"), dict)      \* line 72
        ELSE IF ~dict[game_id].is_active THEN Left(Raise("ValueError"), dict)   \* line 76
        ELSE returned(ended(scored(dict[game_id])))

\* game_logic.py lines 59-119 without the test of is_active
game_logic_update_game_state_unchecked(dict, game_id, action, food_type) ==
    LET score_change ==
            IF action = "correct"
            THEN IF food_type = "eat" THEN EAT_CORRECT_POINTS
                 ELSE CORRECT_ACTION_POINTS
            ELSE IF action = "incorrect"
            THEN IF food_type = "trash" /\ action = "eat" THEN EAT_TRASH_POINTS
                 ELSE IF food_type = "eat" THEN EAT_INCORRECT_POINTS
                 ELSE INCORRECT_ACTION_POINTS
            ELSE 0
        scored(game) == [game EXCEPT !.score = Max({0, game.score + score_change})]
        timed(game) == [game EXCEPT !.time_remaining = Max({0, game.time_remaining - 1})]
        ended(game) ==
            IF game.time_remaining <= 0 THEN [game EXCEPT !.is_active = FALSE] ELSE game
        returned(game) ==
            Left(Return([score |-> game.score, time_remaining |-> game.time_remaining,
                         is_game_over |-> game.time_remaining <= 0]),
                 [dict EXCEPT ![game_id] = game])
    IN  IF game_id \notin DOMAIN dict THEN Left(Raise("ValueError"), dict)
        ELSE returned(ended(timed(scored(dict[game_id]))))

\* game_logic.py lines 59-119
game_logic_update_game_state(dict, game_id, action, food_type) ==
    LET score_change ==
            IF action = "correct"
            THEN IF food_type = "eat" THEN EAT_CORRECT_POINTS          \* line 92
                 ELSE CORRECT_ACTION_POINTS                            \* line 94
            ELSE IF action = "incorrect"
            THEN IF food_type = "trash" /\ action = "eat" THEN EAT_TRASH_POINTS  \* line 97
                 ELSE IF food_type = "eat" THEN EAT_INCORRECT_POINTS   \* line 99
                 ELSE INCORRECT_ACTION_POINTS                          \* line 101
            ELSE 0                                                     \* line 77
        scored(game) == [game EXCEPT !.score = Max({0, game.score + score_change})]
        timed(game) == [game EXCEPT !.time_remaining = Max({0, game.time_remaining - 1})]
        ended(game) ==
            IF game.time_remaining <= 0 THEN [game EXCEPT !.is_active = FALSE] ELSE game
        returned(game) ==
            Left(Return([score |-> game.score, time_remaining |-> game.time_remaining,
                         is_game_over |-> game.time_remaining <= 0]),
                 [dict EXCEPT ![game_id] = game])
    IN  IF game_id \notin DOMAIN dict THEN Left(Raise("ValueError"), dict)      \* line 71
        ELSE IF ~dict[game_id].is_active THEN Left(Raise("ValueError"), dict)   \* line 75
        ELSE returned(ended(timed(scored(dict[game_id]))))

\* game_core.py lines 112-139, game_logic.py lines 121-147
end_game_session(dict, game_id) ==
    LET ended(game) ==
            Left(Return([score |-> game.score,
                         time_played |-> INITIAL_TIME - game.time_remaining]),
                 [dict EXCEPT ![game_id] = [game EXCEPT !.is_active = FALSE]])
    IN  IF game_id \notin DOMAIN dict THEN Left(Raise("ValueError"), dict)
        ELSE IF ~dict[game_id].is_active THEN Left(Raise("ValueError"), dict)
        ELSE ended(dict[game_id])

Modules == {"game_core", "game_logic"}

\* what uuid.uuid4() gives, and an id it never gave
GameIds == {"g1"}
UnknownId == "g0"

PlayerIds == {"", "p1"}

Actions == {"correct", "incorrect", "skip"}

FoodTypes(module) ==
    IF module = "game_core" THEN {"green waste bin", "trash"}
    ELSE {"eat", "trash", "donate"}

\* game_logic.update_game_state takes no diy_option
DiyOptions(module) == IF module = "game_core" THEN {"1", "0"} ELSE {"None"}

MaxScore == 30        \* calls that would raise a score above it are left out

InitGame ==
    /\ dish_cache = <<>>
    /\ dish_mappings = {}
    /\ claude_api_key = ""
    /\ games \in {[m \in {module} |-> NoGames] : module \in Modules}
    /\ call = "idle"
    /\ args = Unused
    /\ ret = Unused
    /\ exc = "None"

\* the call leaves the module's dict as the outcome has it
GameOutcome(o, module) ==
    /\ \A id \in DOMAIN o.games : o.games[id].score <= MaxScore
    /\ Outcome(o)
    /\ games' = [games EXCEPT ![module] = o.games]

StartNewGame(module) ==
    /\ call = "idle"
    /\ \E player_id \in PlayerIds, game_id \in GameIds \ DOMAIN games[module] :
        /\ call' = "start_new_game"
        /\ args' = [module |-> module, player_id |-> player_id]
        /\ GameOutcome(start_new_game(games[module], player_id, game_id), module)
        /\ UNCHANGED <<dish_cache, dish_mappings, claude_api_key>>

UpdateGameState(module) ==
    /\ call = "idle"
    /\ \E game_id \in GameIds \cup {UnknownId}, action \in Actions,
          food_type \in FoodTypes(module), diy_option \in DiyOptions(module) :
        /\ call' = "update_game_state"
        /\ args' = [module |-> module, game_id |-> game_id, action |-> action,
                    food_type |-> food_type, diy_option |-> diy_option]
        /\ GameOutcome(IF module = "game_core"
                       THEN game_core_update_game_state(games[module], game_id, action,
                                                        food_type, diy_option)
                       ELSE game_logic_update_game_state(games[module], game_id, action,
                                                         food_type),
                       module)
        /\ UNCHANGED <<dish_cache, dish_mappings, claude_api_key>>

EndGameSession(module) ==
    /\ call = "idle"
    /\ \E game_id \in GameIds \cup {UnknownId} :
        /\ call' = "end_game_session"
        /\ args' = [module |-> module, game_id |-> game_id]
        /\ GameOutcome(end_game_session(games[module], game_id), module)
        /\ UNCHANGED <<dish_cache, dish_mappings, claude_api_key>>

NextGame ==
    \/ \E module \in DOMAIN games :
        \/ StartNewGame(module)
        \/ UpdateGameState(module)
        \/ EndGameSession(module)
    \/ Done

SpecGame == InitGame /\ [][NextGame]_vars

---------------------------------------------------------------------------
(* Resolution: the tiers of get_ingredients *)

\* the kind of a result of get_ingredients
ResultKind(result) ==
    IF "match_type" \in DOMAIN result THEN result.match_type ELSE "error"

\* the alias store answers the lookup of the name with an entry whose
\* lowercased dish is a key of the cache
AliasInCache(user_dish_input) ==
    /\ args.store_up
    /\ \E r \in dish_mappings :
        /\ r.user_term = strip(lower(user_dish_input))
        /\ lower(r.dish_name) \in CacheKeys(dish_cache)

\* the collaborator returns a non-empty valid list
Generated(reply) ==
    LET c == get_claude_direct_ingredients(claude_api_key, reply)
    IN  ~c.none /\ c.value # <<>>

\* C1: get_ingredients resolves in strict tier order, first success wins: the
\* result is exact iff the lowercased, trimmed name is a key of the cache;
\* otherwise mapped iff the alias store has an entry for the name and the
\* lowercased mapped name is a key of the cache; otherwise claude_generated
\* iff the collaborator returns a non-empty valid list; otherwise the
\* {error, suggestions} result.
C1_TierOrder ==
    call = "get_ingredients" =>
        /\ exc = "None"
        /\ ResultKind(ret) =
             IF strip(lower(args.user_dish_input)) \in CacheKeys(dish_cache)
             THEN "exact"
             ELSE IF AliasInCache(args.user_dish_input) THEN "mapped"
             ELSE IF Generated(args.reply) THEN "claude_generated"
             ELSE "error"
        /\ ResultKind(ret) = "error" => DOMAIN ret = {"error", "suggestions"}

\* C1 at work: an alias whose dish is not in the cache falls through to the
\* generated tier
C1_AliasFallsThrough ==
    /\ call = "get_ingredients"
    /\ ~args.mapped_dish.none
    /\ args.mapped_dish.value # ""
    /\ lower(args.mapped_dish.value) \notin CacheKeys(dish_cache)
    /\ ResultKind(ret) = "claude_generated"

---------------------------------------------------------------------------
(* Resolution: failures of the collaborator *)

\* the items of the array in the reply's text, when it decodes
ReplyItems(reply) == json_loads(json_match(reply.text).value)

\* the kinds of failure of the suggestion call
CollaboratorFails(reply) ==
    \/ claude_api_key = ""                                 \* missing API key
    \/ reply.transport = "raises"                           \* transport exception
    \/ reply.status_code # 200                              \* non-200 status
    \/ reply.body # "json"                                  \* malformed response
    \/ json_match(reply.text).none                          \* no JSON array
    \/ ReplyItems(reply).none                               \* JSON decode error
    \/ ReplyItems(reply).value.empty                        \* empty array
    \/ \A k \in 1..Len(ReplyItems(reply).value.dicts) :     \* no complete item
           ~({"name", "quantity"} \subseteq DOMAIN ReplyItems(reply).value.dicts[k])

\* C2: any failure of the external suggestion call makes
\* _get_claude_direct_ingredients return None, so get_ingredients, past its
\* first two tiers, returns the {error, suggestions} result, and no exception
\* reaches the caller.
C2_FailureIsNoData ==
    /\ call = "_get_claude_direct_ingredients" =>
        /\ exc = "None"
        /\ CollaboratorFails(args.reply) => ret = None
    /\ call = "get_ingredients" =>
        /\ exc = "None"
        /\ CollaboratorFails(args.reply) => DOMAIN ret = {"error", "suggestions"}

\* C2 at work: a reply whose array does not decode, and the error result
C2_DecodeErrorMisses ==
    /\ call = "get_ingredients"
    /\ claude_api_key # ""
    /\ args.reply.status_code = 200
    /\ args.reply.body = "json"
    /\ ~json_match(args.reply.text).none
    /\ ReplyItems(args.reply).none
    /\ DOMAIN ret = {"error", "suggestions"}

---------------------------------------------------------------------------
(* Quantities: exceptions *)

\* C3: for every input string, scale_ingredients, add_quantities and
\* combine_ingredients return a value and never raise.
C3_NeverRaises == exc = "None"

\* C3, its second part: the count branch of add_quantities, whose line 224
\* converts the label of the second match with int(), is never executed:
\* whenever both quantities match the count pattern with the same label, the
\* number branch has returned or raised before.
C3_CountBranchDead ==
    (call = "add_quantities" /\ args[1] # "as needed" /\ args[2] # "as needed"
     /\ add_counts(args[1], args[2]).returned)
        => add_numbers(args[1], args[2]).returned

\* C3 at work: two counts with the same label have been added
C3_CountsAdded ==
    /\ call = "add_quantities"
    /\ re_pieces(args[1]).matched
    /\ re_pieces(args[2]).matched
    /\ re_pieces(args[1]).g2 = re_pieces(args[2]).g2
    /\ exc = "None"

---------------------------------------------------------------------------
(* Quantities: add_quantities *)

\* C4: "as needed" is a two-sided identity of add_quantities: for every
\* quantity q, add("as needed", q) = q and add(q, "as needed") = q, verbatim.
C4_AsNeededIdentity ==
    call = "add_quantities" =>
        /\ args[1] = "as needed" => (exc = "None" /\ ret = args[2])
        /\ args[2] = "as needed" => (exc = "None" /\ ret = args[1])

\* C4 at work: a composite quantity comes back verbatim
C4_CompositeKept ==
    /\ call = "add_quantities"
    /\ args = <<"2 cups + 300g", "as needed">>
    /\ ret = "2 cups + 300g"

\* a quantity that parses as <number> <unit>, its number and its unit
Parses(q) == q # "as needed" /\ re_number(q).matched
Number(q) == float(re_number(q).g1)
Unit(q) == strip(re_number(q).g2)

WeightUnits == {"g", "gram", "grams", "kg", "kilogram", "kilograms"}
VolumeUnits == {"ml", "milliliter", "milliliters", "l", "liter", "liters"}
ThousandUnits == {"kg", "kilogram", "kilograms", "l", "liter", "liters"}

\* a quantity in tenths of a gram or of a millilitre, kg and l counted as 1000
BaseTenths(q) ==
    IF lower(Unit(q)) \in ThousandUnits THEN Number(q).t * 1000 ELSE Number(q).t

\* text prints t tenths of a gram (or ml): with the large unit, to one
\* decimal, from 1000 on, and as an integer with the small unit below
PrintsTotal(text, t, small, large) ==
    IF t >= 10000
    THEN /\ Parses(text)
         /\ Unit(text) = large
         /\ Number(text).t * 1000 - t <= 500
         /\ t - Number(text).t * 1000 <= 500
         /\ t % 10000 = 0 => text = str(t \div 10000) \o " " \o large
    ELSE text = str(t \div 10) \o " " \o small

\* C5: for two quantities that both parse as <number> <unit>: with identical
\* units add returns the sum with that same unit, without promotion; with
\* different units of the weight family (of the volume family) it returns the
\* total in grams (ml), kg and l counted as 1000, printed as "<n> kg" ("<n> l")
\* from 1000 on and as an integer "<n> g" ("<n> ml") below.
C5_NumbersAdded ==
    (call = "add_quantities" /\ Parses(args[1]) /\ Parses(args[2])) =>
        IF Unit(args[1]) = Unit(args[2])
        THEN /\ exc = "None"
             /\ Parses(ret)
             /\ Number(ret) = FAdd(Number(args[1]), Number(args[2]))
             /\ Unit(ret) = Unit(args[1])
        ELSE IF lower(Unit(args[1])) \in WeightUnits /\ lower(Unit(args[2])) \in WeightUnits
        THEN /\ exc = "None"
             /\ PrintsTotal(ret, BaseTenths(args[1]) + BaseTenths(args[2]), "g", "kg")
        ELSE IF lower(Unit(args[1])) \in VolumeUnits /\ lower(Unit(args[2])) \in VolumeUnits
        THEN /\ exc = "None"
             /\ PrintsTotal(ret, BaseTenths(args[1]) + BaseTenths(args[2]), "ml", "l")
        ELSE TRUE

\* C5 at work: the cross-unit weight merge of "500g" and "1kg"
C5_HalfKiloPlusKilo ==
    /\ call = "add_quantities"
    /\ args = <<"500g", "1kg">>
    /\ ret = "1.5 kg"

\* two counts <int> <label> with the same label
SameLabelCounts(q1, q2) ==
    /\ re_pieces(q1).matched
    /\ re_pieces(q2).matched
    /\ re_pieces(q1).g2 = re_pieces(q2).g2

CountSum(q1, q2) == int(re_pieces(q1).g1) + int(re_pieces(q2).g1)

\* C6: for two counts <int> <label> with identical label in {piece, pieces,
\* large, medium, small}, add returns the summed count with that label, and
\* the label "piece" becomes "pieces" whenever the total exceeds 1.
C6_CountsPluralised ==
    (call = "add_quantities" /\ SameLabelCounts(args[1], args[2])) =>
        /\ exc = "None"
        /\ ret = str(CountSum(args[1], args[2])) \o " "
                 \o (IF re_pieces(args[1]).g2 = "piece" /\ CountSum(args[1], args[2]) > 1
                     THEN "pieces"
                     ELSE re_pieces(args[1]).g2)

\* C6, as the code has it: the number branch adds the counts first and keeps
\* the label as it is
C6_CountsKeepLabel ==
    (call = "add_quantities" /\ SameLabelCounts(args[1], args[2])) =>
        /\ exc = "None"
        /\ ret = str(CountSum(args[1], args[2])) \o " " \o re_pieces(args[1]).g2

\* C6 at work: "1 piece" and "1 piece"
C6_TwoPiece ==
    /\ call = "add_quantities"
    /\ args = <<"1 piece", "1 piece">>
    /\ ret = "2 piece"

\* two multiplied quantities "<N>x <rest>" with the same rest
SameRestMultiples(q1, q2) ==
    /\ re_nx(q1).matched
    /\ re_nx(q2).matched
    /\ re_nx(q1).g2 = re_nx(q2).g2

MultiplierSum(q1, q2) == int(re_nx(q1).g1) + int(re_nx(q2).g1)

\* C7: for "<N>x <rest>" and "<M>x <rest>" with identical rest, add returns
\* "<N+M>x <rest>" in exactly that format.
C7_MultipliersSummed ==
    (call = "add_quantities" /\ SameRestMultiples(args[1], args[2])) =>
        /\ exc = "None"
        /\ ret = str(MultiplierSum(args[1], args[2])) \o "x " \o re_nx(args[1]).g2

\* C7, as the code has it: when the two texts after the multipliers are the
\* same, the number branch takes "x <rest>" for a unit and puts a space
\* before it; the multiplied format is kept only when the spacing differs
C7_NumberBranchFirst ==
    (call = "add_quantities" /\ SameRestMultiples(args[1], args[2])) =>
        /\ exc = "None"
        /\ ret = IF Unit(args[1]) = Unit(args[2])
                 THEN str(MultiplierSum(args[1], args[2])) \o " " \o Unit(args[1])
                 ELSE str(MultiplierSum(args[1], args[2])) \o "x " \o re_nx(args[1]).g2

\* C7 at work: "2x a pinch" and "3x a pinch"
C7_FiveSpaceX ==
    /\ call = "add_quantities"
    /\ args = <<"2x a pinch", "3x a pinch">>
    /\ ret = "5 x a pinch"

---------------------------------------------------------------------------
(* Quantities: irreducible joins and composites *)

\* no merge rule applies to q1 and q2
NoRuleApplies(q1, q2) ==
    /\ q1 # "as needed"
    /\ q2 # "as needed"
    /\ ~add_numbers(q1, q2).returned
    /\ ~add_counts(q1, q2).returned
    /\ ~add_nx(q1, q2).returned

NameOf(ingredient) == Get(ingredient, "name", "")
QuantityOf(ingredient) == Get(ingredient, "quantity", "as needed")

\* three quantities of one ingredient, no two of which merge
ThreeUnmergeable(list) ==
    /\ Len(list) = 3
    /\ \A i \in 1..3 : NameOf(list[i]) # "" /\ lower(NameOf(list[i])) = lower(NameOf(list[1]))
    /\ \A i \in 1..3 : \A j \in 1..3 :
           i < j => NoRuleApplies(QuantityOf(list[i]), QuantityOf(list[j]))

\* C8: when no merge rule applies to q1 and q2, add returns exactly
\* "q1 + q2"; combine_ingredients folds left to right in input order, so
\* three pairwise-unmergeable quantities a, b, c of the same ingredient given
\* in that order yield "a + b + c".
C8_JoinedInOrder ==
    /\ (call = "add_quantities" /\ NoRuleApplies(args[1], args[2])) =>
           (exc = "None" /\ ret = args[1] \o " + " \o args[2])
    /\ (call = "combine_ingredients" /\ ThreeUnmergeable(args[1])) =>
           /\ exc = "None"
           /\ Len(ret) = 1
           /\ ret[1].quantity = QuantityOf(args[1][1]) \o " + " \o QuantityOf(args[1][2])
                                \o " + " \o QuantityOf(args[1][3])

\* C8, its first part, which the code has: when no merge rule applies to q1
\* and q2, add returns exactly "q1 + q2"
C8_IrreducibleJoin ==
    (call = "add_quantities" /\ NoRuleApplies(args[1], args[2])) =>
        (exc = "None" /\ ret = args[1] \o " + " \o args[2])

\* C8 at work: "2 cups", "x" and "3 cups + x" of one ingredient, no two of
\* which merge, combined to "5 cups + x"
C8_FoldMerges ==
    /\ call = "combine_ingredients"
    /\ ThreeUnmergeable(args[1])
    /\ Len(ret) = 1
    /\ ret[1].quantity = "5 cups + x"

\* the composites: the joins "q1 + q2" that an irreducible add of two
\* quantities produces
Composites ==
    {p[1] \o " + " \o p[2] :
        p \in {p \in Quantities \X Quantities : NoRuleApplies(p[1], p[2])}}

Composite(q) == q \in Composites

\* C9: a composite quantity is opaque: add_quantities with a composite and an
\* operand other than "as needed" returns the two operands joined by " + ",
\* and scale_ingredients changes no number of a composite: the composite
\* appears verbatim in the result.
C9_CompositeOpaque ==
    /\ (call = "add_quantities"
        /\ (Composite(args[1]) \/ Composite(args[2]))
        /\ args[1] # "as needed" /\ args[2] # "as needed") =>
           (exc = "None" /\ ret = args[1] \o " + " \o args[2])
    /\ (call = "scale_ingredients" /\ args[2] > 1
        /\ \A i \in 1..Len(args[1]) : NameOf(args[1][i]) # "") =>
           /\ exc = "None"
           /\ Len(ret) = Len(args[1])
           /\ \A i \in 1..Len(args[1]) :
                  Composite(QuantityOf(args[1][i])) =>
                      Contains(ret[i].quantity, QuantityOf(args[1][i]))

\* C9, as the code has it: a composite is parsed like any other text, and
\* only one that does not start with a number is joined or multiplied whole
C9_UnnumberedOpaque ==
    /\ (call = "add_quantities"
        /\ (  (Composite(args[1]) /\ ~re_number(args[1]).matched)
           \/ (Composite(args[2]) /\ ~re_number(args[2]).matched))
        /\ args[1] # "as needed" /\ args[2] # "as needed") =>
           (exc = "None" /\ ret = args[1] \o " + " \o args[2])
    /\ (call = "scale_ingredients" /\ args[2] > 1
        /\ \A i \in 1..Len(args[1]) : NameOf(args[1][i]) # "") =>
           /\ exc = "None"
           /\ Len(ret) = Len(args[1])
           /\ \A i \in 1..Len(args[1]) :
                  (Composite(QuantityOf(args[1][i]))
                   /\ ~re_number(QuantityOf(args[1][i])).matched) =>
                      ret[i].quantity = str(args[2]) \o "x " \o QuantityOf(args[1][i])

\* C9 at work: two composites added number by number
C9_CompositesSummed ==
    /\ call = "add_quantities"
    /\ args = <<"2 cups + x", "3 cups + x">>
    /\ ret = "5 cups + x"

---------------------------------------------------------------------------
(* Quantities: combine_ingredients *)

\* the lowercased names of a list, position by position
Keys(list) == [i \in 1..Len(list) |-> lower(NameOf(list[i]))]

\* the positions where a non-empty lowercased name occurs first
FirstOccurrences(keys) ==
    {i \in DOMAIN keys : keys[i] # "" /\ \A j \in 1..(i - 1) : keys[j] # keys[i]}

\* the positions of the name at position i
Occurrences(keys, i) == {j \in DOMAIN keys : keys[j] = keys[i]}

\* the left-to-right fold of add_quantities over the quantities at positions S
RECURSIVE Fold(_, _)
Fold(list, S) ==
    IF Cardinality(S) = 1 THEN QuantityOf(list[Min(S)])
    ELSE add_quantities(Fold(list, S \ {Max(S)}), QuantityOf(list[Max(S)])).ret

\* one entry per position of first, in that order: the name as it is there,
\* and the fold over the occurrences of the name
FoldedEntries(list, keys, first) ==
    [k \in 1..Len(first) |->
        Ingredient(NameOf(list[first[k]]), Fold(list, Occurrences(keys, first[k])))]

FoldedByName(list, keys) ==
    FoldedEntries(list, keys, Ascending(FirstOccurrences(keys)))

\* C10: combine_ingredients returns exactly one entry per distinct lowercased
\* non-empty name, in order of first occurrence, each with the casing of its
\* first occurrence and the left-to-right fold of add_quantities over all
\* occurrences of the name; entries with an empty or missing name are dropped.
C10_OneEntryPerName ==
    call = "combine_ingredients" =>
        /\ exc = "None"
        /\ ret = FoldedByName(args[1], Keys(args[1]))

\* C10 at work: two names in three entries and one entry without a name
C10_TwoNames ==
    /\ call = "combine_ingredients"
    /\ args[1] = <<Ingredient("beef", "1kg"), [quantity |-> "2 cups"],
                   Ingredient("Beef", "500g")>>
    /\ ret = <<Ingredient("beef", "1.5 kg")>>

---------------------------------------------------------------------------
(* Quantities: scale_ingredients *)

HasName(ingredient) == NameOf(ingredient) # ""

\* a number as scaling prints it: without a trailing ".0"
PrintedNumber(x) == IF IsWhole(x) THEN str(Trunc(x)) ELSE str_float(x)

\* the rule table of scaling, for servings > 1
RuleTable(q, servings) ==
    IF q = "as needed" THEN q
    ELSE IF re_number(q).matched
    THEN strip(PrintedNumber(FMul(Number(q), servings)) \o " " \o re_number(q).g2)
    ELSE str(servings) \o "x " \o q

RuleTableEntries(named, servings) ==
    [k \in 1..Len(named) |->
        Ingredient(named[k].name, RuleTable(QuantityOf(named[k]), servings))]

AllNamed(list) == \A i \in 1..Len(list) : HasName(list[i])

\* C12: scaling a count <int> <label> with label in {piece, pieces, large,
\* medium, small} by servings > 1 multiplies the integer and turns the label
\* "piece" into "pieces" when the product exceeds 1.
C12_ScaledCountsPluralised ==
    (call = "scale_ingredients" /\ args[2] > 1 /\ AllNamed(args[1])) =>
        /\ exc = "None"
        /\ Len(ret) = Len(args[1])
        /\ \A i \in 1..Len(args[1]) :
               re_pieces(QuantityOf(args[1][i])).matched =>
                   ret[i].quantity =
                       str(int(re_pieces(QuantityOf(args[1][i])).g1) * args[2]) \o " "
                       \o (IF re_pieces(QuantityOf(args[1][i])).g2 = "piece"
                              /\ int(re_pieces(QuantityOf(args[1][i])).g1) * args[2] > 1
                           THEN "pieces"
                           ELSE re_pieces(QuantityOf(args[1][i])).g2)

\* C12, as the code has it: the number branch multiplies the count first and
\* keeps the label as it is
C12_ScaledCountsKeepLabel ==
    (call = "scale_ingredients" /\ args[2] > 1 /\ AllNamed(args[1])) =>
        /\ exc = "None"
        /\ Len(ret) = Len(args[1])
        /\ \A i \in 1..Len(args[1]) :
               re_pieces(QuantityOf(args[1][i])).matched =>
                   ret[i].quantity =
                       str(int(re_pieces(QuantityOf(args[1][i])).g1) * args[2]) \o " "
                       \o re_pieces(QuantityOf(args[1][i])).g2

\* C12 at work: "1 piece" for three servings
C12_ThreePiece ==
    /\ call = "scale_ingredients"
    /\ args = <<(<<Ingredient("beef", "1 piece")>>), 3>>
    /\ ret = <<Ingredient("beef", "3 piece")>>

---------------------------------------------------------------------------
(* Normalisation: _standardize_measurement *)

CupWords == {"cup", "cups"}
TbspWords == {"tbsp", "tablespoon", "tablespoons"}
TspWords == {"tsp", "teaspoon", "teaspoons"}
OzWords == {"oz", "ounce", "ounces"}
LbWords == {"lb", "pound", "pounds"}

\* the number a quantity text starts with, "" when it starts with none
AmountOf(q) == SubSeq(q, 1, NumberEnd(q, 1) - 1)

\* what follows that number, trimmed
WordOf(q) == strip(SubSeq(q, NumberEnd(q, 1), Len(q)))

\* q reads "<n> <unit>" for a unit word of the set, n of at most 9 characters
Reads(q, words) == AmountOf(q) # "" /\ Len(AmountOf(q)) < 10 /\ WordOf(q) \in words

FractionOf(n) == SubSeq(n, RunLen(n, 1, Digits) + 2, Len(n))

\* trunc(n * k) of the decimal n, in exact arithmetic
ExactTrunc(n, k) ==
    (int(SubSeq(n, 1, RunLen(n, 1, Digits)) \o FractionOf(n)) * k) \div 10^Len(FractionOf(n))

\* the rule table of the normaliser, every number lowered by `below`
MeasureTable(name, q, below) ==
    LET printed(k, unit) == str(ExactTrunc(AmountOf(q), k) - below) \o unit
    IN  IF q = "as needed"
        THEN IF ContainsAny(name, {"meat", "chicken", "beef", "pork", "steak"}) THEN "250g"
             ELSE IF ContainsAny(name, {"fish", "salmon", "tuna"}) THEN "200g"
             ELSE IF ContainsAny(name, {"vegetable", "carrot", "potato", "tomato"}) THEN "100g"
             ELSE q
        ELSE IF Reads(q, CupWords)
        THEN IF ContainsAny(name, {"milk", "water", "juice", "broth", "stock"})
             THEN printed(240, "ml")
             ELSE printed(150, "g")
        ELSE IF Reads(q, TbspWords) THEN printed(15, "ml")
        ELSE IF Reads(q, TspWords) THEN printed(5, "ml")
        ELSE IF Reads(q, OzWords) THEN printed(28, "g")
        ELSE IF Reads(q, LbWords) THEN printed(454, "g")
        ELSE q

\* the texts the rule table speaks of without doubt: "as needed", a number
\* followed by nothing but a unit word, and a text that names no unit
Tabled(q) ==
    \/ q = "as needed"
    \/ Reads(q, CupWords \cup TbspWords \cup TspWords \cup OzWords \cup LbWords)
    \/ ~ContainsAny(q, {"cup", "tbsp", "tablespoon", "tsp", "teaspoon",
                        "oz", "ounce", "lb", "pound"})

\* C13: _standardize_measurement returns what the rule table gives, the
\* products n*240, n*150, n*15, n*5, n*28 and n*454 truncated to integers,
\* for every name and every quantity with an integer or decimal n.
C13_MeasureTable ==
    call = "_standardize_measurement" /\ Tabled(args[2])
    => exc = "None" /\ ret = MeasureTable(args[1], args[2], 0)

\* C13, as the code has it: the product is a product of doubles, so a
\* decimal n can give the integer below the one of the table; an integer n
\* gives the table's number.
C13_TableOrOneBelow ==
    call = "_standardize_measurement" /\ Tabled(args[2])
    => /\ exc = "None"
       /\ ret \in {MeasureTable(args[1], args[2], 0), MeasureTable(args[1], args[2], 1)}
       /\ FractionOf(AmountOf(args[2])) = "" => ret = MeasureTable(args[1], args[2], 0)

\* C13 at work: 4.1 cups of milk, 984 ml by the table, come out as 983 ml
C13_FourPointOneCups ==
    /\ call = "_standardize_measurement"
    /\ args = <<"milk", "4.1 cups">>
    /\ ret = "983ml"

---------------------------------------------------------------------------
(* Filtering: _filter_fresh_ingredients *)

\* the lowercased name of the ingredient holds no entry of the lexicon
IsFresh(ingredient) == ~ContainsAny(lower(ingredient.name), household_items)

\* the ingredient as the filter passes it on: its name as given, its
\* quantity normalised for the lowercased name
PassedOn(ingredient) ==
    Ingredient(ingredient.name,
               standardize_measurement(lower(ingredient.name), ingredient.quantity).ret)

NamesOf(list) == [k \in 1..Len(list) |-> list[k].name]

\* C14: what _filter_fresh_ingredients returns is, in the order and with the
\* names of the input, the ingredients whose lowercased name holds no entry
\* of the household lexicon; it is no longer than the input, and the name of
\* a dropped ingredient is the name of no returned one.
C14_FreshOnesKept ==
    call = "_filter_fresh_ingredients" /\ exc = "None"
    => LET kept(fresh) ==
               /\ NamesOf(ret) = NamesOf(fresh)
               /\ ret = [k \in 1..Len(fresh) |-> PassedOn(fresh[k])]
       IN  /\ kept(SelectSeq(args[1], IsFresh))
           /\ Len(ret) <= Len(args[1])
           /\ \A i \in 1..Len(args[1]) : \A k \in 1..Len(ret) :
                  ~IsFresh(args[1][i]) => ret[k].name # args[1][i].name

\* C14 at work: the list of the test, Salt and Olive oil dropped
C14_SaltAndOilDropped ==
    /\ call = "_filter_fresh_ingredients"
    /\ args = <<TestedList>>
    /\ ret = <<Ingredient("Chicken breast", "500g"), Ingredient("Tomatoes", "3 pieces")>>

---------------------------------------------------------------------------
(* Resolution: where the filter and the normaliser are applied *)

\* the cached text a result of kind exact or mapped was made of
CachedText(result) ==
    CacheGet(dish_cache, IF result.match_type = "exact" THEN result.dish
                         ELSE lower(result.dish))

\* C15: the freshness filter and the normaliser act on the exact and the
\* mapped path only.  The ingredients of a generated result are the list the
\* collaborator's reply was validated to, unchanged; the ingredients of an
\* exact or mapped result are the parsed cached text after the filter, and
\* none of their names holds an entry of the household lexicon.
C15_FilterOnCachedPathsOnly ==
    call = "get_ingredients" /\ exc = "None" =>
        /\ ResultKind(ret) = "claude_generated" =>
               ret.ingredients
                   = get_claude_direct_ingredients(claude_api_key, args.reply).value
        /\ ResultKind(ret) \in {"exact", "mapped"} =>
               /\ ret.ingredients
                      = filter_fresh_ingredients(
                            parse_ingredients(Some(CachedText(ret)))).ret
               /\ \A k \in 1..Len(ret.ingredients) : IsFresh(ret.ingredients[k])

\* C15 at work: a generated result that lists salt, in cups
C15_GeneratedSaltInCups ==
    /\ call = "get_ingredients"
    /\ ResultKind(ret) = "claude_generated"
    /\ \E k \in 1..Len(ret.ingredients) : ret.ingredients[k] = Ingredient("salt", "2 cups")

---------------------------------------------------------------------------
(* Parsing: _parse_ingredients *)

Separators == {";", ","}

\* where the separator-free stretches of the text start
SegmentStarts(text) ==
    {i \in 1..Len(text) :
        Char(text, i) \notin Separators /\ (i = 1 \/ Char(text, i - 1) \in Separators)}

\* the stretch that starts at i, up to the next separator or the end
SegmentAt(text, i) ==
    SubSeq(text, i,
           Min({j \in i..Len(text) : Char(text, j) \in Separators} \cup {Len(text) + 1}) - 1)

\* the tokens of a raw text: its stretches, trimmed, the empty ones left out
TokensOf(text) ==
    LET trimmed(starts) ==
            SelectSeq([k \in 1..Len(starts) |-> strip(SegmentAt(text, starts[k]))], NonEmpty)
    IN  trimmed(Ascending(SegmentStarts(text)))

AllIn(s, a, b, cls) == \A i \in a..b : Char(s, i) \in cls

OneLine(s) == ~Contains(s, "\n")

\* <<p, u, k>> for a token that reads: number, blanks, a unit word at p..u-1,
\* at least one blank, and from k on a name on one line; n is the index after
\* the number
UnitSplits(tok, n) ==
    {s \in (n..Len(tok)) \X (n..Len(tok)) \X (n..Len(tok)) :
        /\ n > 1
        /\ AllIn(tok, n, s[1] - 1, Whitespace)
        /\ s[2] > s[1] /\ AllIn(tok, s[1], s[2] - 1, Letters)
        /\ s[3] > s[2] /\ AllIn(tok, s[2], s[3] - 1, Whitespace)
        /\ Char(tok, s[3]) \notin Whitespace
        /\ OneLine(SubSeq(tok, s[3], Len(tok)))}

\* k for a token that reads: number, at least one blank, and from k on a
\* name on one line
NameSplits(tok, n) ==
    {k \in n..Len(tok) :
        /\ n > 1 /\ k > n
        /\ AllIn(tok, n, k - 1, Whitespace)
        /\ Char(tok, k) \notin Whitespace
        /\ OneLine(SubSeq(tok, k, Len(tok)))}

\* the ingredient of a token: number, optional unit word, blanks and name
\* when the token reads so, the whole token "as needed" when it does not
Decomposed(tok) ==
    LET with_unit(s) ==
            Ingredient(SubSeq(tok, s[3], Len(tok)),
                       strip(SubSeq(tok, 1, AmountEnd(tok) - 1) \o " "
                             \o SubSeq(tok, s[1], s[2] - 1)))
        without_unit(k) ==
            Ingredient(SubSeq(tok, k, Len(tok)),
                       strip(SubSeq(tok, 1, AmountEnd(tok) - 1) \o " "))
    IN  IF UnitSplits(tok, AmountEnd(tok)) # {}
        THEN with_unit(CHOOSE s \in UnitSplits(tok, AmountEnd(tok)) : TRUE)
        ELSE IF NameSplits(tok, AmountEnd(tok)) # {}
        THEN without_unit(CHOOSE k \in NameSplits(tok, AmountEnd(tok)) : TRUE)
        ELSE Ingredient(tok, "as needed")

\* the text _parse_ingredients was given, "" for None
RawText == IF args[1].none THEN "" ELSE args[1].value

IsSuffix(name, tok) ==
    Len(name) < Len(tok) /\ SubSeq(tok, Len(tok) - Len(name) + 1, Len(tok)) = name

\* C16: _parse_ingredients gives one ingredient per non-empty trimmed token
\* of the text split on ";" and ",", in order.  A token with a leading
\* number gives a quantity that starts with that number and, as name, the
\* text that remains; a token without one gives the whole token as name,
\* "as needed".  No text, or an empty one, gives the empty list.
C16_LeadingNumberSplit ==
    call = "_parse_ingredients" =>
        /\ exc = "None"
        /\ Len(ret) = Len(TokensOf(RawText))
        /\ \A k \in 1..Len(ret) :
             IF Char(TokensOf(RawText)[k], 1) \in Digits
             THEN /\ StartsWith(ret[k].quantity, 1,
                                SubSeq(TokensOf(RawText)[k], 1,
                                       AmountEnd(TokensOf(RawText)[k]) - 1))
                  /\ IsSuffix(ret[k].name, TokensOf(RawText)[k])
             ELSE ret[k] = Ingredient(TokensOf(RawText)[k], "as needed")

\* C16, as the code has it: a token is taken apart only when it reads
\* number, optional unit word, blanks, name on one line; every other token,
\* with a leading number or without, is a name "as needed".
C16_PatternSplit ==
    call = "_parse_ingredients" =>
        /\ exc = "None"
        /\ ret = [k \in 1..Len(TokensOf(RawText)) |-> Decomposed(TokensOf(RawText)[k])]
        /\ RawText = "" => ret = <<>>

\* C16 at work: three tokens, with a unit, without a unit, without a number
C16_BeefOnionsSalt ==
    /\ call = "_parse_ingredients"
    /\ args = <<Some("500g beef; 2 onions, salt")>>
    /\ ret = <<Ingredient("beef", "500 g"), Ingredient("onions", "2"),
               Ingredient("salt", "as needed")>>

---------------------------------------------------------------------------
(* The grocery list: categories *)

Categories == {"Meat", "Fish", "Produce", "Dairy", "Grains", "Condiments", "Other"}

\* the keyword lists of the categorizer that was called, in priority order
KeywordLists ==
    IF call = "categorize_ingredient"
    THEN <<views_meat_keywords, views_fish_keywords, produce_keywords,
           dairy_keywords, grain_keywords, condiment_keywords>>
    ELSE <<meat_keywords, fish_keywords, produce_keywords,
           dairy_keywords, grain_keywords, condiment_keywords>>

\* the categories whose list has a keyword in the lowercased name, as indices
Matching(name) == {i \in 1..6 : ContainsAny(lower(name), KeywordLists[i])}

UpperChar(c) ==
    IF \E i \in 1..Len(LowerCase) : Char(LowerCase, i) = c
    THEN Char(UpperCase, CHOOSE i \in 1..Len(LowerCase) : Char(LowerCase, i) = c)
    ELSE c

RECURSIVE Upper(_)
Upper(s) == IF s = "" THEN "" ELSE UpperChar(Char(s, 1)) \o Upper(SubSeq(s, 2, Len(s)))

\* what the categorizer that was called returns for a name
Categorized(name) ==
    IF call = "categorize_ingredient" THEN categorize_ingredient(name)
    ELSE determine_category(name)

\* C17: a categorizer returns one of the seven categories: the first, in the
\* order Meat, Fish, Produce, Dairy, Grains, Condiments, whose keyword list
\* has a keyword in the name, Other when none has; the case of the letters
\* of the name changes nothing.
C17_FirstMatchWins ==
    call \in {"determine_category", "categorize_ingredient"} =>
        /\ ret \in Categories
        /\ ret = IF Matching(args[1]) = {} THEN "Other"
                 ELSE CategoryOrder[Min(Matching(args[1]))]
        /\ Categorized(lower(args[1])) = ret
        /\ Categorized(Upper(args[1])) = ret

\* C17 at work: a name in capitals with keywords of Fish and of Condiments
C17_FishSauceIsFish ==
    /\ call = "determine_category"
    /\ args = <<"Fish Sauce">>
    /\ Cardinality(Matching(args[1])) = 2
    /\ ret = "Fish"

\* the ingredients of a list that determine_category puts into a category,
\* in the order of the list
OfCategory(ingredients, category) ==
    SelectSeq(ingredients, LAMBDA i : determine_category(GetName(i)) = category)

\* C18: categorize_ingredients partitions its input.  The buckets have
\* different categories; a bucket holds, in input order, exactly the
\* ingredients determine_category puts into its category, and holds at least
\* one; every ingredient is in the bucket of its category; an empty input
\* gives an empty map.
C18_BucketsPartition ==
    call = "categorize_ingredients" =>
        /\ \A i, j \in 1..Len(ret) : ret[i].key = ret[j].key => i = j
        /\ \A i \in 1..Len(ret) :
              /\ ret[i].key \in Categories
              /\ ret[i].value # <<>>
              /\ ret[i].value = OfCategory(args[1], ret[i].key)
        /\ \A k \in 1..Len(args[1]) :
              \E i \in 1..Len(ret) : ret[i].key = determine_category(GetName(args[1][k]))
        /\ args[1] = <<>> => ret = <<>>

\* C18 at work: three ingredients, two of them Meat, in two buckets
C18_TwoBuckets ==
    /\ call = "categorize_ingredients"
    /\ args = <<(<<Ingredient("Chicken Breast", "500g"), Ingredient("eggs", "2"),
                  Ingredient("beef", "1kg")>>)>>
    /\ ret = <<Item("Meat", <<Ingredient("Chicken Breast", "500g"), Ingredient("beef", "1kg")>>),
               Item("Other", <<Ingredient("eggs", "2")>>)>>

---------------------------------------------------------------------------
(* The grocery list: pantry items *)

\* every ingredient of every bucket, bucket after bucket
RECURSIVE Flat(_)
Flat(items_by_category) ==
    IF items_by_category = <<>> THEN <<>>
    ELSE Head(items_by_category).value \o Flat(Tail(items_by_category))

\* how often an ingredient occurs in a list
Count(list, ingredient) == Cardinality({k \in 1..Len(list) : list[k] = ingredient})

\* the combined, categorized ingredients search_dishes started from
Combined ==
    combine_dish_ingredients(dish_cache, claude_api_key, args[1], args[2]).ret.items_by_category

PantryItems == Get(ret.data, "pantry_items", <<>>)

\* left are the ingredients still in buckets, pantry those taken out, and
\* combined those there were: none of left has a pantry keyword in its
\* lowercased name, all of pantry have, and left and pantry together hold
\* every ingredient as often as combined does
Separated(left, pantry, combined) ==
    /\ \A k \in 1..Len(left) : ~ContainsAny(lower(GetName(left[k])), pantry_keywords)
    /\ \A k \in 1..Len(pantry) : ContainsAny(lower(GetName(pantry[k])), pantry_keywords)
    /\ \A k \in 1..Len(combined) :
          /\ Count(left \o pantry, combined[k]) = Count(combined, combined[k])
          /\ ContainsAny(lower(GetName(combined[k])), pantry_keywords)
                => Count(pantry, combined[k]) = Count(combined, combined[k])
    /\ Len(left) + Len(pantry) = Len(combined)

\* C19: after search_dishes has taken the pantry items out, no ingredient of
\* a bucket has a pantry keyword in its lowercased name, every ingredient
\* taken out is in pantry_items as often as it was in the buckets, the
\* buckets and pantry_items together hold the combined ingredients, none
\* lost and none twice, and no bucket is empty.
C19_PantrySeparated ==
    call = "search_dishes" /\ ret.status = 200 =>
        /\ Separated(Flat(ret.data.items_by_category), PantryItems, Flat(Combined))
        /\ \A i \in 1..Len(ret.data.items_by_category) :
              ret.data.items_by_category[i].value # <<>>

\* C19 at work: a pantry item was the only ingredient of its bucket, and
\* other buckets are left
C19_BucketEmptied ==
    /\ call = "search_dishes"
    /\ ret.status = 200
    /\ PantryItems # <<>>
    /\ ret.data.items_by_category # <<>>
    /\ Len(ret.data.items_by_category) < Len(Combined)

---------------------------------------------------------------------------
(* The grocery list: the dishes of a request *)

\* the dish has a name
Named(dish) == Get(dish, "name", "") # ""

\* what get_ingredients returns for each of the dishes that has a name
RECURSIVE ResolutionsOf(_, _)
ResolutionsOf(selected_dishes, answers) ==
    IF selected_dishes = <<>> THEN <<>>
    ELSE << IF Named(Head(selected_dishes))
            THEN get_ingredients(dish_cache, claude_api_key, Head(selected_dishes).name,
                                 Head(answers).mapped_dish, Head(answers).reply).ret
            ELSE [error |-> "no name"] >>
         \o ResolutionsOf(Tail(selected_dishes), Tail(answers))

Resolutions == ResolutionsOf(args[1], args[2])

\* the positions of the request whose dish has a name and resolves
Resolved(resolutions) ==
    {i \in 1..Len(args[1]) : Named(args[1][i]) /\ "error" \notin DOMAIN resolutions[i]}

\* the positions of the request whose dish has a name and does not resolve
Missed(resolutions) ==
    {i \in 1..Len(args[1]) : Named(args[1][i]) /\ "error" \in DOMAIN resolutions[i]}

\* the positions of a set, in ascending order
RECURSIVE InOrder(_)
InOrder(positions) ==
    IF positions = {} THEN <<>>
    ELSE LET first == CHOOSE i \in positions : \A j \in positions : i <= j
         IN  <<first>> \o InOrder(positions \ {first})

\* the result reports the dishes at the positions found and missed
Reported(result, resolutions, found, missed) ==
    /\ result.success = (found # <<>>)
    /\ found = <<>> =>
          result.success = FALSE /\ result.dishes = <<>> /\ result.items_by_category = <<>>
    /\ result.dishes = [k \in 1..Len(found) |-> resolutions[found[k]].dish]
    /\ result.missing_dishes = [k \in 1..Len(missed) |-> args[1][missed[k]].name]
    /\ Len(result.dishes) + Len(result.missing_dishes)
           = Cardinality({i \in 1..Len(args[1]) : Named(args[1][i])})

\* C20: combine_dish_ingredients reports success exactly when a dish of the
\* request resolved.  When none did, and so for the empty request, success
\* is false, dishes is empty and so is items_by_category.  The dishes with a
\* name are split over dishes and missing_dishes, each in one of them, in
\* request order: dishes has the resolved dish of each that resolved,
\* missing_dishes the name of each that did not.
C20_SuccessIffResolved ==
    call = "combine_dish_ingredients" /\ exc = "None" =>
        LET reported(resolutions) ==
                Reported(ret, resolutions, InOrder(Resolved(resolutions)),
                         InOrder(Missed(resolutions)))
        IN  reported(Resolutions)

\* C20 at work: two dishes asked for, none resolved
C20_AllMissing ==
    /\ call = "combine_dish_ingredients"
    /\ Len(args[1]) = 2
    /\ Len(ret.missing_dishes) = 2
    /\ ret.success = FALSE
    /\ ret.dishes = <<>>
    /\ ret.items_by_category = <<>>

---------------------------------------------------------------------------
(* Resolution: the suggestions *)

\* the smaller of two numbers
Least(a, b) == IF a < b THEN a ELSE b

\* C21: when the exact tier, the alias tier and the collaborator all miss,
\* get_ingredients returns the {error, suggestions} result, and its
\* suggestions are the first min(5, size of the cache) keys of the cache in
\* the order they were loaded.  They are a function of the cache alone, the
\* same for every requested name.
C21_FirstKeysSuggested ==
    (/\ call = "get_ingredients"
     /\ strip(lower(args.user_dish_input)) \notin CacheKeys(dish_cache)
     /\ ~AliasInCache(args.user_dish_input)
     /\ ~Generated(args.reply))
    => /\ exc = "None"
       /\ DOMAIN ret = {"error", "suggestions"}
       /\ Len(ret.suggestions) = Least(5, Len(dish_cache))
       /\ \A i \in 1..Len(ret.suggestions) : ret.suggestions[i] = dish_cache[i].key

\* C21 at work: seven dishes loaded last to first, the five loaded first
\* suggested
C21_FiveOfSeven ==
    /\ call = "get_ingredients"
    /\ Len(dish_cache) = 7
    /\ DOMAIN ret = {"error", "suggestions"}
    /\ ret.suggestions = <<"dish 7", "dish 6", "dish 5", "dish 4", "dish 3">>

---------------------------------------------------------------------------
(* The alias store: upsert and lookup *)

\* terms to look up, in several letter cases
LookedUp == {"spag", "Spag", "SPAG", "soup", "Soup", "SOUP", "tofu"}

\* what _get_mapped_dish returns for the term while the store is up
Lookup(mappings, term) == get_mapped_dish(mappings, term, TRUE)

\* the store holds at most one row for a lowercased term
OneRowPerTerm(mappings) ==
    \A r1, r2 \in mappings : lower(r1.user_term) = lower(r2.user_term) => r1 = r2

\* the lowercased terms of a call
LowerTerms(common_terms) == {lower(common_terms[i]) : i \in 1..Len(common_terms)}

\* a step of add_dish_mapping: the call returns and raises nothing; it
\* returns true exactly when the store failed at no term; after a call that
\* returned true the lookup of each of its terms, in any letter case, gives
\* the dish of the call, and the lookup of every other term gives what it
\* gave before; the store has one row for a lowercased term at most
UpsertStep ==
    call' = "add_dish_mapping" =>
        /\ exc' = "None"
        /\ ret' = (args'.written = Len(args'.common_terms))
        /\ OneRowPerTerm(dish_mappings')
        /\ ret' = TRUE =>
              \A term \in LookedUp :
                  Lookup(dish_mappings', term) =
                      IF lower(term) \in LowerTerms(args'.common_terms)
                      THEN {Some(args'.dish_name)}
                      ELSE Lookup(dish_mappings, term)

\* C22: add_dish_mapping is an upsert that never raises.  It returns true
\* when every term was written and false when the store fails.  Through
\* every sequence of calls the alias store holds at most one row for a
\* lowercased term, and after a successful call the lookup of a term in any
\* letter case returns the dish of the most recent successful write of that
\* term: the dish of this call for its terms, and for the others what the
\* lookup returned before.
C22_UpsertLastWriteKept == [][UpsertStep]_vars

\* C22 at work: a term written before is written again with another dish,
\* in another letter case, and the store has one row
C22_TermRewritten ==
    /\ call = "add_dish_mapping"
    /\ ret = TRUE
    /\ args.dish_name = "Tofu"
    /\ args.common_terms = <<"Soup">>
    /\ dish_mappings = {[user_term |-> "soup", dish_name |-> "Tofu"],
                        [user_term |-> "spag", dish_name |-> "Pasta"]}

---------------------------------------------------------------------------
(* Resolution: letter case and surrounding whitespace of the name *)

\* names in several letter cases, with and without whitespace around them
NameForms ==
    {"pasta", "PASTA", " Pasta ", "stew", "\tStew", "spag", "SPAG\n", " Spag",
     "soup", "Soup", "SOUP ", "tofu", "TOFU", "\nTofu "}

\* the forms of a name: the names that differ from it in letter case and in
\* surrounding whitespace only
FormsOf(name) == {n \in NameForms : strip(lower(n)) = strip(lower(name))}

\* what get_ingredients returns for the name against the stores and the
\* collaborator's answer of the call in progress
Resolve(name, mapped_dish) ==
    get_ingredients(dish_cache, claude_api_key, name, mapped_dish, args.reply)

\* the two outcomes have the same kind and the same list of ingredients
SameResolution(o1, o2) ==
    /\ o1.exc = o2.exc
    /\ ResultKind(o1.ret) = ResultKind(o2.ret)
    /\ Get(o1.ret, "ingredients", <<>>) = Get(o2.ret, "ingredients", <<>>)

\* C23: names are compared without regard to letter case in every tier.  For
\* every name that differs from the requested one in letter case or
\* surrounding whitespace only, get_ingredients against the same cache, the
\* same alias store and the same answer of the collaborator returns the
\* same match_type and the same list of ingredients.
C23_CaseInsensitive ==
    call = "get_ingredients" =>
        \A name \in FormsOf(args.user_dish_input) :
            \A mapped_dish \in get_mapped_dish(dish_mappings, strip(lower(name)),
                                               args.store_up) :
                SameResolution(Resolve(name, mapped_dish), [exc |-> exc, ret |-> ret])

\* C23 at work: an alias with a capital resolves through the alias store, as
\* its other forms do
C23_AliasWithCapital ==
    /\ call = "get_ingredients"
    /\ args.user_dish_input = "Soup"
    /\ ResultKind(ret) = "mapped"
    /\ ret.ingredients = <<Ingredient("onions", "3")>>
    /\ Cardinality(FormsOf(args.user_dish_input)) = 3

---------------------------------------------------------------------------
(* Resolution: the stores are read only *)

\* the calls that resolve dishes
Resolving == {"get_ingredients", "combine_dish_ingredients", "search_dishes"}

\* the outcome of the call, as Return and Raise give it
OutcomeOf(value, raised) == [exc |-> raised, ret |-> value]

\* a step of a resolving call leaves the cache and the alias store as they
\* were, and the same call against the stores it leaves has the outcome it
\* had
ResolutionStep ==
    /\ dish_cache' = dish_cache
    /\ call' \in Resolving =>
          /\ dish_mappings' = dish_mappings
          /\ call' = "get_ingredients" =>
                /\ args'.mapped_dish \in get_mapped_dish(dish_mappings',
                       strip(lower(args'.user_dish_input)), args'.store_up)
                /\ get_ingredients(dish_cache', claude_api_key', args'.user_dish_input,
                                   args'.mapped_dish, args'.reply) = OutcomeOf(ret', exc')
          /\ call' = "combine_dish_ingredients" =>
                combine_dish_ingredients(dish_cache', claude_api_key', args'[1], args'[2])
                    = OutcomeOf(ret', exc')

---------------------------------------------------------------------------
(* The five conversion rules and the order they are tried in *)

Rules == {"cup", "tbsp", "tsp", "oz", "lb"}

\* the words of a rule's pattern, lines 163, 174, 180, 186, 192
RuleWords(rule) ==
    IF rule = "cup" THEN {"cup"}
    ELSE IF rule = "tbsp" THEN {"tbsp", "tablespoon"}
    ELSE IF rule = "tsp" THEN {"tsp", "teaspoon"}
    ELSE IF rule = "oz" THEN {"oz", "ounce"}
    ELSE {"lb", "pound"}

\* the rules whose pattern is found in a quantity
RulesFound(quantity) == {rule \in Rules : re_search_unit(quantity, RuleWords(rule)).matched}

\* what a rule makes of a quantity its pattern is found in
RuleOutcome(name, quantity, rule) ==
    LET number == re_search_unit(quantity, RuleWords(rule)).g1
    IN  IF rule = "cup"
        THEN IF ContainsAny(name, {"milk", "water", "juice", "broth", "stock"})
             THEN converted(number, 240, "ml")
             ELSE converted(number, 150, "g")
        ELSE IF rule = "tbsp" THEN converted(number, 15, "ml")
        ELSE IF rule = "tsp" THEN converted(number, 5, "ml")
        ELSE IF rule = "oz" THEN converted(number, 28, "g")
        ELSE converted(number, 454, "g")

\* at most one rule matches, and whichever rule is tried first gives the
\* result of the call
OrderFree(name, quantity) ==
    /\ Cardinality(RulesFound(quantity)) <= 1
    /\ \A rule \in RulesFound(quantity) :
           RuleOutcome(name, quantity, rule) = [exc |-> exc, ret |-> ret]

\* a quantity as _parse_ingredients writes it: f"{amount} {unit}".strip(),
\* an amount \d+(?:\.\d+)?(?:/\d+)? alone or followed by one blank and a
\* word of letters
AmountAndWord(quantity) ==
    LET n == AmountEnd(quantity)
    IN  /\ n > 1
        /\ \/ n = Len(quantity) + 1
           \/ /\ Char(quantity, n) = " "
              /\ n < Len(quantity)
              /\ RunLen(quantity, n + 1, Letters) = Len(quantity) - n

\* C25: for every quantity text given to _standardize_measurement at most
\* one of the five patterns matches, so the result is that of the matching
\* rule whatever the order of the rules
C25_RulesExclusive ==
    call = "_standardize_measurement" => OrderFree(args[1], args[2])

\* C25, as the code has it: every quantity _parse_ingredients writes is
\* "as needed" or an amount with at most one unit word, and for an amount
\* with at most one unit word at most one of the five patterns matches, so
\* the result is that of the matching rule whatever the order of the rules
C25_RulesExclusiveOnParsed ==
    /\ call = "_parse_ingredients" =>
           \A i \in 1..Len(ret) :
               ret[i].quantity = "as needed" \/ AmountAndWord(ret[i].quantity)
    /\ (call = "_standardize_measurement" /\ AmountAndWord(args[2])) =>
           OrderFree(args[1], args[2])

\* C25 at work: one and a half cups of milk, read by the cup rule alone
C25_CupsOfMilk ==
    /\ call = "_standardize_measurement"
    /\ args = <<"milk", "1.5 cups">>
    /\ AmountAndWord(args[2])
    /\ RulesFound(args[2]) = {"cup"}
    /\ exc = "None"
    /\ ret = "360ml"

---------------------------------------------------------------------------
(* The order of the tiers within one get_ingredients call *)

ReadsOf(consulted, store) == {i \in 1..Len(consulted) : consulted[i] = store}

\* step 1 found no key for the requested name
ExactMissed == strip(lower(args.user_dish_input)) \notin CacheKeys(dish_cache)

\* step 2 got no dish from the alias store, or one that is no key of the cache
AliasMissed ==
    \/ args.mapped_dish.none
    \/ args.mapped_dish.value = ""
    \/ lower(args.mapped_dish.value) \notin CacheKeys(dish_cache)

\* C26: within one get_ingredients call the cache is looked up first; the
\* alias store is read at most once and only after the exact lookup missed;
\* the collaborator is called at most once, last, and only after the exact
\* and the alias tier missed; a call that returns an exact result has read
\* nothing but the cache and one that returns a mapped result has not
\* called the collaborator; the result is that of get_ingredients
C26_TiersInOrder ==
    call \in {"get_ingredients.mapped", "get_ingredients.claude",
              "get_ingredients.return", "get_ingredients"} =>
        /\ args.consulted[1] = "dish_cache"
        /\ Cardinality(ReadsOf(args.consulted, "dish_mappings")) <= 1
        /\ \A i \in ReadsOf(args.consulted, "dish_mappings") : i = 2 /\ ExactMissed
        /\ Cardinality(ReadsOf(args.consulted, "collaborator")) <= 1
        /\ \A i \in ReadsOf(args.consulted, "collaborator") :
            /\ i = Len(args.consulted)
            /\ \E j \in ReadsOf(args.consulted, "dish_mappings") : j < i
            /\ ExactMissed
            /\ AliasMissed
        /\ call = "get_ingredients" =>
            /\ [exc |-> exc, ret |-> ret]
                   = get_ingredients(dish_cache, claude_api_key, args.user_dish_input,
                                     args.mapped_dish, args.reply)
            /\ exc = "None" =>
                /\ ResultKind(ret) = "exact" => args.consulted = <<"dish_cache">>
                /\ ResultKind(ret) = "mapped" =>
                       args.consulted = <<"dish_cache", "dish_mappings", "dish_cache">>
                /\ ResultKind(ret) \in {"claude_generated", "error"} =>
                       /\ ExactMissed /\ AliasMissed
                       /\ claude_api_key # "" =>
                              ReadsOf(args.consulted, "collaborator") # {}

\* C26 at work: no key and no alias for "tofu", the one request to the
\* collaborator fails, and the call returns the error without another one
C26_FailedOnce ==
    /\ call = "get_ingredients"
    /\ args.user_dish_input = "tofu"
    /\ claude_api_key # ""
    /\ args.reply.transport = "raises"
    /\ args.consulted = <<"dish_cache", "dish_mappings", "collaborator">>
    /\ ResultKind(ret) = "error"

---------------------------------------------------------------------------
(* Two writers of one term *)

\* both calls have returned
BothReturned == \A w \in Writers : ret[w] # "running"

\* both calls write the one term, which had no row before
SameNewTerm(term) ==
    /\ \A w \in Writers : args.writers[w].common_terms = <<term>>
    /\ ~\E r \in args.before : r.user_term = lower(term)

\* the store has one row of the term, written by one of the calls
OneWriteKept(term) ==
    /\ Cardinality({r \in dish_mappings : r.user_term = lower(term)}) = 1
    /\ \A r \in dish_mappings :
           r.user_term = lower(term) =>
               \E w \in Writers : r.dish_name = args.writers[w].dish_name

\* C27: when two calls for the same, previously unmapped term have returned,
\* whatever the order of their statements, both have returned true and the
\* store has exactly one row of the term, with the dish of one of them
C27_BothWritesAccepted ==
    \A term \in MappingTerms :
        (BothReturned /\ SameNewTerm(term)) =>
            /\ \A w \in Writers : ret[w] = "True"
            /\ OneWriteKept(term)

\* C27, as the code has it: the store never has two rows of one term; when
\* two calls for the same, previously unmapped term have returned the store
\* has exactly one row of the term, with the dish of one of them, and one of
\* the calls has returned true; both have when the store takes the upsert
\* as one statement; a call that returned false left the row of the other
C27_OneWriteKept ==
    /\ OneRowPerTerm(dish_mappings)
    /\ \A term \in MappingTerms :
        (BothReturned /\ SameNewTerm(term)) =>
            /\ OneWriteKept(term)
            /\ \E w \in Writers : ret[w] = "True"
            /\ args.vendor # "sqlite" => \A w \in Writers : ret[w] = "True"
            /\ \A w \in Writers :
                   ret[w] = "False" =>
                       \E r \in dish_mappings :
                           /\ r.user_term = lower(term)
                           /\ r.dish_name = args.writers[3 - w].dish_name

\* C27 at work: both calls counted no row of "soup", the first inserted
\* its row and the insert of the second was refused
C27_SecondInsertRefused ==
    /\ call = "add_dish_mapping"
    /\ args.vendor = "sqlite"
    /\ args.before = {}
    /\ \A w \in Writers : args.writers[w].common_terms = <<"Soup">>
    /\ \A w \in Writers : args.writers[w].count = 0
    /\ args.writers[1].dish_name = "Pasta"
    /\ args.writers[2].dish_name = "Tofu"
    /\ ret = [w \in Writers |-> IF w = 1 THEN "True" ELSE "False"]
    /\ dish_mappings = {[user_term |-> "soup", dish_name |-> "Pasta"]}

---------------------------------------------------------------------------
(* Fractions: the amount the parser took and the number that is converted *)

\* where the "/" of an amount a/b stands, 0 when it has none
SlashOf(amount) ==
    IF Contains(amount, "/")
    THEN CHOOSE i \in 1..Len(amount) : Char(amount, i) = "/"
    ELSE 0

\* the token reads "a/b <unit> <name>" with integers a, b and a unit word of
\* the five rules
FractionToken(token) ==
    LET m == re_quantity(token)
    IN  /\ m.matched
        /\ SlashOf(m.g1) > 0
        /\ ~Contains(m.g1, ".")
        /\ m.g2 \in CupWords \cup TbspWords \cup TspWords \cup OzWords \cup LbWords

\* the factor and the unit of the rule of a unit word, lines 163-196
FactorOf(name, word) ==
    IF word \in CupWords
    THEN IF ContainsAny(lower(name), {"milk", "water", "juice", "broth", "stock"})
         THEN 240 ELSE 150
    ELSE IF word \in TbspWords THEN 15
    ELSE IF word \in TspWords THEN 5
    ELSE IF word \in OzWords THEN 28
    ELSE 454

UnitOf(name, word) ==
    IF word \in TbspWords \cup TspWords THEN "ml"
    ELSE IF word \in CupWords
            /\ ContainsAny(lower(name), {"milk", "water", "juice", "broth", "stock"})
    THEN "ml"
    ELSE "g"

\* trunc((a/b) * factor) of the token, with its unit
WholeAmount(token) ==
    LET m == re_quantity(token)
        a == int(SubSeq(m.g1, 1, SlashOf(m.g1) - 1))
        b == int(SubSeq(m.g1, SlashOf(m.g1) + 1, Len(m.g1)))
    IN  str((a * FactorOf(m.g3, m.g2)) \div b) \o UnitOf(m.g3, m.g2)

\* b * factor of the token, with its unit
DenominatorAlone(token) ==
    LET m == re_quantity(token)
        b == int(SubSeq(m.g1, SlashOf(m.g1) + 1, Len(m.g1)))
    IN  str(b * FactorOf(m.g3, m.g2)) \o UnitOf(m.g3, m.g2)

\* the tokens of the cached text an exact or mapped result was made of
CachedTokens(result) ==
    split_parts(split_parts(<<CacheGet(dish_cache, lower(result.dish))>>, ";"), ",")

\* the call returned an exact or mapped result
FromCache ==
    /\ call = "get_ingredients"
    /\ exc = "None"
    /\ ResultKind(ret) \in {"exact", "mapped"}

\* C28: in an exact or mapped result the quantity of a cached token
\* "a/b <unit> <name>" is the truncated product of a/b and the unit's factor
C28_WholeAmountConverted ==
    FromCache =>
        LET whole(tokens) ==
                /\ Len(ret.ingredients) = Len(tokens)
                /\ \A i \in 1..Len(tokens) :
                       FractionToken(tokens[i]) =>
                           ret.ingredients[i].quantity = WholeAmount(tokens[i])
        IN  whole(CachedTokens(ret))

\* C28, as the code has it: in an exact or mapped result the quantity of a
\* cached token "a/b <unit> <name>" is the product of the denominator b and
\* the unit's factor
C28_DenominatorConverted ==
    FromCache =>
        LET denominator(tokens) ==
                /\ Len(ret.ingredients) = Len(tokens)
                /\ \A i \in 1..Len(tokens) :
                       FractionToken(tokens[i]) =>
                           /\ ret.ingredients[i].name = re_quantity(tokens[i]).g3
                           /\ ret.ingredients[i].quantity = DenominatorAlone(tokens[i])
        IN  denominator(CachedTokens(ret))

\* C28 at work: half a cup of milk comes back as two cups' worth
C28_HalfCupOfMilk ==
    /\ FromCache
    /\ ResultKind(ret) = "exact"
    /\ ret.dish = "pasta"
    /\ CachedTokens(ret)[1] = "1/2 cup milk"
    /\ ret.ingredients[1] = Ingredient("milk", "480ml")

---------------------------------------------------------------------------
(* Game sessions: score and time *)

\* the changes of score an action value stands for, for a game with score
\* `old`: a loss below -old is a loss of old + 1, the clamp giving 0 for both
ScoreChanges(action, old) ==
    IF action = "correct" THEN {10, 15}
    ELSE IF action = "incorrect" THEN (0 - old - 1)..(0 - 1)
    ELSE {0}

\* a step of a game module: every game has a score >= 0 and a time within
\* 0..60; start_new_game adds a game with score 0 and time 60;
\* update_game_state changes the score of its game by one of the changes of
\* its action, clamped at 0, and returns that score
ScoreStep ==
    \A module \in DOMAIN games' :
        /\ \A id \in DOMAIN games'[module] :
            /\ games'[module][id].score >= 0
            /\ games'[module][id].time_remaining \in 0..60
        /\ (call' = "start_new_game" /\ exc' = "None") =>
               \E id \in DOMAIN games'[module] \ DOMAIN games[module] :
                   /\ games'[module][id].score = 0
                   /\ games'[module][id].time_remaining = 60
                   /\ ret'.score = 0
        /\ (call' = "update_game_state" /\ exc' = "None") =>
               LET changed(old, new) ==
                       /\ \E d \in ScoreChanges(args'.action, old) :
                              new = IF old + d < 0 THEN 0 ELSE old + d
                       /\ ret'.score = new
               IN  changed(games[module][args'.game_id].score,
                           games'[module][args'.game_id].score)

\* C29: in every state of a game session the score is >= 0 and the time
\* within 0..60; start_new_game sets the score to 0 and update_game_state
\* changes it by +10 or +15 for "correct", by a negative amount for
\* "incorrect" and by 0 for any other action, clamped at 0 from below
C29_ScoreNeverNegative == [][ScoreStep]_vars

\* C29 at work: the first action of a game is a wrong "eat"; the score
\* stays 0 and does not become -10
C29_ClampedAtZero ==
    /\ call = "update_game_state"
    /\ exc = "None"
    /\ args.module = "game_logic"
    /\ args.action = "incorrect"
    /\ args.food_type = "eat"
    /\ ret = [score |-> 0, time_remaining |-> 59, is_game_over |-> FALSE]
    /\ games["game_logic"]["g1"].score = 0

---------------------------------------------------------------------------
(* Game sessions: a game that has ended *)

\* the game a call names has ended or was never started
Refused(dict, game_id) == game_id \notin DOMAIN dict \/ ~dict[game_id].is_active

\* a step of a game module: no game leaves the dict and a game that has
\* ended stays as it is; a game ends in end_game_session or in an
\* update_game_state that leaves no time; update_game_state and
\* end_game_session for a game that has ended, or for an id that names no
\* game, raise ValueError and leave the dict as it is; an update that
\* game_logic accepts finds time left and lowers it by 1
EndedStep ==
    \A module \in DOMAIN games' :
        /\ \A id \in DOMAIN games[module] :
            /\ id \in DOMAIN games'[module]
            /\ ~games[module][id].is_active => games'[module][id] = games[module][id]
            /\ (games[module][id].is_active /\ ~games'[module][id].is_active) =>
                   /\ exc' = "None"
                   /\ args'.game_id = id
                   /\ \/ call' = "end_game_session"
                      \/ call' = "update_game_state"
                         /\ games'[module][id].time_remaining <= 0
        /\ (call' \in {"update_game_state", "end_game_session"}
              /\ Refused(games[module], args'.game_id)) =>
               /\ exc' = "ValueError"
               /\ games' = games
        /\ (call' = "update_game_state" /\ exc' = "None" /\ module = "game_logic") =>
               /\ games[module][args'.game_id].time_remaining >= 1
               /\ games'[module][args'.game_id].time_remaining
                      = games[module][args'.game_id].time_remaining - 1
               /\ games'[module][args'.game_id].is_active
                      = (games'[module][args'.game_id].time_remaining > 0)

\* C30: a game that is not active never becomes active again: every later
\* update_game_state and end_game_session for it raises ValueError and
\* leaves it unchanged, as for an unknown game_id, which leaves the dict
\* unchanged; in game_logic every accepted update lowers time_remaining by
\* 1 from 60, so a game accepts at most 60 updates
C30_EndedForGood == [][EndedStep]_vars

\* C30 at work: a game of game_logic has taken 60 updates; the next one is
\* refused
C30_SixtyFirstRefused ==
    /\ call = "update_game_state"
    /\ exc = "ValueError"
    /\ args.module = "game_logic"
    /\ args.game_id = "g1"
    /\ "g1" \in DOMAIN games["game_logic"]
    /\ games["game_logic"]["g1"].time_remaining = 0
    /\ ~games["game_logic"]["g1"].is_active

====
